---- MODULE Spec2Model ----
(***************************************************************************)
(* A model of salt/modules/opkg.py: the package operations install,        *)
(* remove, purge, upgrade, hold and unhold, the tool invoker _call_opkg    *)
(* with its lock-contention retry, and the command plan builder.           *)
(*                                                                         *)
(* A command is a sequence of strings (argv).  A tool result is a record   *)
(* [retcode, stdout, stderr]; stdout is a sequence of lines, a line is a   *)
(* sequence of whitespace-separated tokens (a parenthesis that opens or    *)
(* closes a token is written as a token of its own), stderr is a sequence  *)
(* of messages.  A snapshot is a function from the installed package names   *)
(* to their versions (1..MaxVer).                                          *)
(***************************************************************************)
EXTENDS Integers, Sequences, FiniteSets, TLC

VARIABLES
    installed,   \* the system: package name -> installed version
    held,        \* the system: packages whose flag is "hold"
    context,     \* __context__: <<>> or <<snapshot>> under "pkg.list_pkgs"
    pc,          \* position of the running operation
    opname,      \* the entry point that is running
    kw,          \* the arguments of the running call
    loc,         \* the locals of the running operation
    inv,         \* the tool invocation in flight (or the last one finished)
    cmd_ret,     \* what the last invocation returned to its caller
    log,         \* the invocations finished by the running operation
    outcome,     \* what the operation returned or raised
    pre,         \* history: installed and held when the operation started
    dry,         \* history: the preceding dry-run install, for comparison
    running,     \* child processes the operation has started and not yet reaped
    b,           \* inputs and result of _build_install_command_list
    proc,        \* the child of _process_with_progress, its pipe and proc.stdout
    mon,         \* the locals of _process_with_progress and what it has emitted
    clock        \* time.time()

vars == <<installed, held, context, pc, opname, kw, loc, inv, cmd_ret, log,
          outcome, pre, dry, running, b, proc, mon, clock>>

(***************************************************************************)
(* Bounds of the model.                                                    *)
(***************************************************************************)
MaxVer == 2          \* versions are 1..MaxVer
MaxTargets == 2      \* longest bucket given to the plan builder
MaxLines == 3        \* longest script of the child of _process_with_progress
MaxTicks == 2        \* the clock advances at most MaxTicks times during a run
ChannelCapacity == 1 \* events the channel to the observer holds

(***************************************************************************)
(* Program constants.                                                      *)
(***************************************************************************)
PACKAGES_TO_INSTALL_DETACHED == {"ni-sysmgmt-salt-minion-support"}
LockMarker == "opkg_lock: Could not lock /run/opkg.lock"
Attempts == 5        \* for idx in range(5)
LastRetryIdx == 4    \* ... and idx < 4

Pkgs == {"vim", "ni-sysmgmt-salt-minion-support"}
Versions == 1..MaxVer
None == "None"

Range(s) == {s[i] : i \in 1..Len(s)}
Last(s) == s[Len(s)]

RECURSIVE SetToSeq(_)
SetToSeq(S) ==
    IF S = {} THEN <<>>
    ELSE LET x == CHOOSE y \in S : TRUE IN <<x>> \o SetToSeq(S \ {x})

Snapshots == UNION {[D -> Versions] : D \in SUBSET Pkgs}
EmptySnapshot == [p \in {} |-> 1]

(***************************************************************************)
(* salt.utils.data.compare_dicts as the operations use it: the keys on     *)
(* which old and new disagree, with the old and the new version ("" when   *)
(* absent).                                                                *)
(***************************************************************************)
VersionOrEmpty(snap, k) == IF k \in DOMAIN snap THEN ToString(snap[k]) ELSE ""

\* a variant that would look at the keys of new only
compare_dicts_of_new_keys(old, new) ==
    LET keys == {k \in DOMAIN new : VersionOrEmpty(old, k) # VersionOrEmpty(new, k)}
    IN [k \in keys |-> [old |-> VersionOrEmpty(old, k),
                        new |-> VersionOrEmpty(new, k)]]

compare_dicts(old, new) ==
    LET keys == {k \in (DOMAIN old) \cup (DOMAIN new) :
                    VersionOrEmpty(old, k) # VersionOrEmpty(new, k)}
    IN [k \in keys |-> [old |-> VersionOrEmpty(old, k),
                        new |-> VersionOrEmpty(new, k)]]

(***************************************************************************)
(* _build_install_command_list                                             *)
(***************************************************************************)
\* a variant that would extend the caller's list instead of a copy of it
build_install_shared_prefix(cmd_prefix, to_install, to_downgrade, to_reinstall) ==
    LET p1 == IF to_install # <<>> THEN cmd_prefix \o to_install ELSE cmd_prefix
        c1 == IF to_install # <<>> THEN <<p1>> ELSE <<>>
        p2 == IF to_downgrade # <<>>
              THEN Append(p1, "--force-downgrade") \o to_downgrade ELSE p1
        c2 == IF to_downgrade # <<>> THEN <<p2>> ELSE <<>>
        p3 == IF to_reinstall # <<>>
              THEN Append(p2, "--force-reinstall") \o to_reinstall ELSE p2
        c3 == IF to_reinstall # <<>> THEN <<p3>> ELSE <<>>
    IN [cmds |-> c1 \o c2 \o c3, cmd_prefix |-> p3]

\* what the function builds, and the caller's cmd_prefix list afterwards (each
\* command is built on copy.deepcopy(cmd_prefix))
build_install(cmd_prefix, to_install, to_downgrade, to_reinstall) ==
    LET c1 == IF to_install # <<>>
              THEN << cmd_prefix \o to_install >> ELSE <<>>
        c2 == IF to_downgrade # <<>>
              THEN << Append(cmd_prefix, "--force-downgrade") \o to_downgrade >>
              ELSE <<>>
        c3 == IF to_reinstall # <<>>
              THEN << Append(cmd_prefix, "--force-reinstall") \o to_reinstall >>
              ELSE <<>>
    IN [cmds |-> c1 \o c2 \o c3, cmd_prefix |-> cmd_prefix]

build_install_command_list(cmd_prefix, to_install, to_downgrade, to_reinstall) ==
    build_install(cmd_prefix, to_install, to_downgrade, to_reinstall).cmds

(***************************************************************************)
(* Tool results and the text the tool prints.                              *)
(***************************************************************************)
Result(retcode, stdout, stderr) ==
    [retcode |-> retcode, stdout |-> stdout, stderr |-> stderr]

\* what a Python function returns when it falls off its end
NoneResult == Result(-1, <<>>, <<>>)

HasLockMarker(stderr) == \E i \in 1..Len(stderr) : stderr[i] = LockMarker

StrToVer(s) == CHOOSE v \in 0..(MaxVer + 1) : ToString(v) = s

Flags == {"--noaction", "--force-downgrade", "--force-reinstall",
          "--no-install-recommends", "--force-removal-of-dependent-packages",
          "--autoremove"}
IsFlag(tok) == tok \in Flags
SubCommand(args) == IF Len(args) >= 2 THEN args[2] ELSE ""
HasNoAction(args) == "--noaction" \in Range(args)
TargetsOf(args) == SelectSeq(SubSeq(args, 3, Len(args)), LAMBDA t : ~IsFlag(t))
Mutating(args) == SubCommand(args) \in {"install", "remove", "upgrade", "flag"}

\* "opkg list-installed": one line "<name> - <version>" per package
ListInstalledLines(snap) ==
    LET names == SetToSeq(DOMAIN snap)
    IN [i \in 1..Len(names) |-> <<names[i], "-", ToString(snap[names[i]])>>]

\* "opkg status [<pkg>]": a block of attribute lines per package, then a blank line
StatusBlock(p, snap, hld) ==
    << <<"Package:", p>>,
       <<"Version:", ToString(snap[p])>>,
       <<"Status:", "install", IF p \in hld THEN "hold" ELSE "ok", "installed">>,
       <<>> >>

RECURSIVE StatusLines(_, _, _)
StatusLines(names, snap, hld) ==
    IF names = <<>> THEN <<>>
    ELSE StatusBlock(Head(names), snap, hld) \o StatusLines(Tail(names), snap, hld)

\* the lines "opkg remove" prints for the packages R it removes
RemoveLines(R, snap) ==
    LET names == SetToSeq(R)
    IN [i \in 1..Len(names) |->
          <<"Removing", names[i], "(", ToString(snap[names[i]]), ")", "from", "root...">>]

\* the lines "opkg install"/"opkg upgrade" print when going from snap to new
ChangeLines(snap, new) ==
    LET names == SetToSeq({p \in DOMAIN new : p \notin DOMAIN snap \/ snap[p] # new[p]})
    IN [i \in 1..Len(names) |->
          IF names[i] \notin DOMAIN snap
          THEN <<"Installing", names[i], "(", ToString(new[names[i]]), ")", "on", "root">>
          ELSE <<"Upgrading", names[i], "from", ToString(snap[names[i]]), "to",
                 ToString(new[names[i]]), "on", "root">>]

(***************************************************************************)
(* The package manager binary: the outcomes one execution of args can have *)
(* in the current system state, each a result and the state it leaves.     *)
(***************************************************************************)
Outcome(res, snap, hld) == [res |-> res, installed |-> snap, held |-> hld]

\* a target string is "<pkg>" or "<pkg><op><version>"
PkgStr(p, oper, ver) == p \o oper \o ToString(ver)
TargetPkgs(targets) ==
    {p \in Pkgs : \E i \in 1..Len(targets) :
        \/ targets[i] = p
        \/ \E o \in {"=", ">=", "<=", "<<", ">>"}, v \in Versions : targets[i] = PkgStr(p, o, v)}

RemoveEffects(args) ==
    LET T == Range(TargetsOf(args)) \cap DOMAIN installed
        cascade == \/ "--force-removal-of-dependent-packages" \in Range(args)
                   \/ "--autoremove" \in Range(args)
    IN {R \in SUBSET (DOMAIN installed) : T \subseteq R /\ (cascade \/ R = T)}

UpgradeEffects ==
    {s \in [DOMAIN installed -> Versions] :
        \A p \in DOMAIN installed :
            /\ s[p] >= installed[p]
            /\ p \in held => s[p] = installed[p]}

InstallEffects(args) ==
    LET T == TargetPkgs(TargetsOf(args))
    IN {s \in Snapshots :
          /\ DOMAIN s = DOMAIN installed \cup T
          /\ \A p \in DOMAIN installed \ T : s[p] = installed[p]}

\* a version: epoch (0 when not written), upstream version, "~rc1" suffix
VersionArgs ==
    {[epoch |-> 0, upstream |-> u, pre |-> p] : u \in Versions, p \in BOOLEAN}
        \cup {[epoch |-> 1, upstream |-> 1, pre |-> FALSE]}

\* str(x) for a version x
VerStr(x) ==
    (IF x.epoch # 0 THEN ToString(x.epoch) \o ":" ELSE "") \o ToString(x.upstream)
        \o (IF x.pre THEN "~rc1" ELSE "")

\* shlex.quote: a string with a character outside [a-zA-Z0-9@%+=:,./-], as
\* '~' is, is put between single quotes
shlex_quote(x) == IF x.pre THEN "'" \o VerStr(x) \o "'" ELSE VerStr(x)

\* "compare-versions <ver1> <op> <ver2>" of the tool and of the standalone helper:
\* the relation holds in the order of the version strings as they are given,
\* epoch first, then the upstream version, "~" before the end of the string;
\* a string that starts with a quote sorts after those that start with a digit
compare_versions(ver1, oper, ver2) ==
    LET Given == {[v |-> v, q |-> q] : v \in VersionArgs, q \in BOOLEAN}
        Str(m) == IF m.q THEN "'" \o VerStr(m.v) \o "'" ELSE VerStr(m.v)
        Key(str) == LET m == CHOOSE m \in Given : Str(m) = str
                    IN (IF m.q THEN 1000 ELSE 0) + 100 * m.v.epoch + 2 * m.v.upstream
                          + (IF m.v.pre THEN 0 ELSE 1)
    IN CASE oper = "<<" -> Key(ver1) < Key(ver2)
         [] oper = "=" -> Key(ver1) = Key(ver2)
         [] oper = ">>" -> Key(ver1) > Key(ver2)
         [] OTHER -> FALSE

FailureOutcomes ==
    { Outcome(Result(1, <<>>, <<"error">>), installed, held),
      Outcome(Result(1, << <<"error">> >>, <<>>), installed, held),
      Outcome(Result(255, <<>>, <<LockMarker>>), installed, held) }

SuccessOutcomes(args) ==
    LET helper == Len(args) >= 1 /\ args[1] = "opkg-compare-versions"
        sub == IF helper THEN "compare-versions" ELSE SubCommand(args)
        real == ~HasNoAction(args)
        operands == IF helper THEN SubSeq(args, 2, 4) ELSE SubSeq(args, 3, 5)
    IN CASE sub = "--version" ->
              {Outcome(Result(0, << <<"opkg", "version", v>> >>, <<>>), installed, held) :
                  v \in {"0.3.3", "0.3.4"}}
         [] sub = "compare-versions" ->
              {Outcome(Result(IF compare_versions(operands[1], operands[2], operands[3])
                              THEN 0 ELSE 1, <<>>, <<>>), installed, held)}
         [] sub = "list-installed" ->
              {Outcome(Result(0, ListInstalledLines(installed), <<>>), installed, held)}
         [] sub = "status" ->
              LET names == IF Len(args) >= 3
                           THEN SelectSeq(<<args[3]>>, LAMBDA p : p \in DOMAIN installed)
                           ELSE SetToSeq(DOMAIN installed)
              IN {Outcome(Result(0, StatusLines(names, installed, held), <<>>), installed, held)}
         [] sub = "update" ->
              { Outcome(Result(0, << <<"Inflating", "http://feed/Packages.gz.">> >>, <<>>),
                        installed, held),
                Outcome(Result(1, << <<"*", "opkg_download:", "Failed", "to", "download",
                                       "http://feed/Packages.gz,", "wget", "returned", "4.">> >>,
                               <<>>), installed, held) }
         [] sub = "remove" ->
              {Outcome(Result(0, RemoveLines(R, installed), <<>>),
                       IF real THEN [p \in (DOMAIN installed) \ R |-> installed[p]] ELSE installed,
                       IF real THEN held \ R ELSE held) : R \in RemoveEffects(args)}
         [] sub = "upgrade" ->
              {Outcome(Result(0, ChangeLines(installed, s), <<>>),
                       IF real THEN s ELSE installed, held) : s \in UpgradeEffects}
         [] sub = "install" ->
              {Outcome(Result(0, ChangeLines(installed, s), <<>>),
                       IF real THEN s ELSE installed, held) : s \in InstallEffects(args)}
         [] sub = "flag" ->
              LET p == args[4]
                  hld == IF p \notin DOMAIN installed THEN held
                         ELSE IF args[3] = "hold" THEN held \cup {p} ELSE held \ {p}
              IN {Outcome(Result(0, <<>>, <<>>), installed, hld)}
         [] OTHER -> {Outcome(Result(0, <<>>, <<>>), installed, held)}

\* a real mutating command may fail after having changed part of the system
PartialOutcomes(args) ==
    IF SubCommand(args) \in {"remove", "upgrade", "install"} /\ ~HasNoAction(args)
    THEN {Outcome(Result(1, o.res.stdout, <<"error">>), o.installed, o.held) :
             o \in SuccessOutcomes(args)}
    ELSE {}

ToolOutcomes(args) == SuccessOutcomes(args) \cup FailureOutcomes \cup PartialOutcomes(args)

\* cmd.run_all: with redirect_stderr the messages of stderr arrive in stdout
run_all(res, redirect_stderr) ==
    IF redirect_stderr
    THEN Result(res.retcode,
                res.stdout \o [i \in 1..Len(res.stderr) |-> <<res.stderr[i]>>], <<>>)
    ELSE res

(***************************************************************************)
(* _call_opkg: one iteration of "for idx in range(5)" per step.            *)
(***************************************************************************)
\* runs: the tool's result at each execution made for the invocation so far
Invocation(site, via, args, redirect) ==
    [active |-> TRUE, site |-> site, via |-> via, args |-> args,
     redirect |-> redirect, idx |-> 0, runs |-> <<>>, spawned |-> FALSE]

NoInvocation ==
    [active |-> FALSE, site |-> "", via |-> "", args |-> <<>>,
     redirect |-> FALSE, idx |-> 0, runs |-> <<>>, spawned |-> FALSE]

LogEntry(i, r) ==
    [site |-> i.site, via |-> i.via, cmd |-> i.args, retcode |-> r.retcode,
     stdout |-> r.stdout]

\* variants of the retry condition: on any failure, never, one retry less
ShouldRetry_retry_on_failure(stderr, retcode, idx) ==
    retcode # 0 /\ idx < LastRetryIdx

ShouldRetry_never(stderr, retcode, idx) == FALSE

ShouldRetry_one_retry_less(stderr, retcode, idx) ==
    HasLockMarker(stderr) /\ idx < LastRetryIdx - 1

\* "if 'opkg_lock: Could not lock /run/opkg.lock' in stderr and idx < 4"
ShouldRetry(stderr, retcode, idx) ==
    HasLockMarker(stderr) /\ idx < LastRetryIdx

CallOpkgAttempt ==
    /\ inv.active
    /\ inv.via = "_call_opkg"
    /\ \E o \in ToolOutcomes(inv.args) :
          LET r == run_all(o.res, inv.redirect)
              runs == Append(inv.runs, o.res)
          IN /\ installed' = o.installed
             /\ held' = o.held
             /\ IF ShouldRetry(r.stderr, r.retcode, inv.idx)
                THEN IF inv.idx + 1 < Attempts
                     THEN /\ inv' = [inv EXCEPT !.idx = inv.idx + 1, !.runs = runs]
                          /\ UNCHANGED <<cmd_ret, log>>
                     ELSE /\ inv' = [inv EXCEPT !.active = FALSE, !.runs = runs]
                          /\ cmd_ret' = NoneResult
                          /\ log' = Append(log, LogEntry(inv, r))
                ELSE /\ inv' = [inv EXCEPT !.active = FALSE, !.runs = runs]
                     /\ cmd_ret' = r
                     /\ log' = Append(log, LogEntry(inv, r))
    /\ UNCHANGED <<context, pc, opname, kw, loc, outcome, pre, dry, running, b, proc, mon, clock>>

(***************************************************************************)
(* Executions that do not go through _call_opkg.  cmd.run (_get_state,     *)
(* _set_state) runs the tool and returns when it has exited.               *)
(* subprocess.Popen (_process_with_progress, _open_detached_process)       *)
(* starts a child, which runs until proc.communicate() has waited for it.  *)
(* The tool is executed once and its result is taken as it is.             *)
(***************************************************************************)
Spawned == {"Popen", "detached"}

\* subprocess.Popen(cmd, ...)
Spawn ==
    /\ inv.active
    /\ inv.via \in Spawned
    /\ ~inv.spawned
    /\ inv' = [inv EXCEPT !.spawned = TRUE]
    /\ running' = running + 1
    /\ UNCHANGED <<installed, held, context, pc, opname, kw, loc, cmd_ret, log,
                   outcome, pre, dry, b, proc, mon, clock>>

\* a variant that would return without waiting for the child
children_after_wait_unreaped(n) == n

\* proc.communicate(): the child has exited and is reaped
children_after_wait(n) == n - 1

RunOnce ==
    /\ inv.active
    /\ inv.via # "_call_opkg"
    /\ inv.via \in Spawned => inv.spawned
    /\ \E o \in ToolOutcomes(inv.args) :
          /\ installed' = o.installed
          /\ held' = o.held
          /\ inv' = [inv EXCEPT !.active = FALSE, !.runs = <<o.res>>]
          /\ cmd_ret' = run_all(o.res, inv.redirect)
          /\ log' = Append(log, LogEntry(inv, o.res))
    /\ running' = IF inv.via \in Spawned THEN children_after_wait(running) ELSE running
    /\ UNCHANGED <<context, pc, opname, kw, loc, outcome, pre, dry, b, proc, mon, clock>>

(***************************************************************************)
(* Parsers of the tool's output.                                           *)
(***************************************************************************)
\* _execute_list_pkgs, the loop over the lines of "opkg list-installed"
RECURSIVE ParseListInstalled(_, _)
ParseListInstalled(lines, ret) ==
    IF lines = <<>> THEN ret
    ELSE LET line == Head(lines)
         IN IF Len(line) < 3 \/ line[2] # "-"
            THEN ParseListInstalled(Tail(lines), ret)
            ELSE ParseListInstalled(Tail(lines),
                    [k \in DOMAIN ret \cup {line[1]} |->
                        IF k = line[1] THEN StrToVer(line[3]) ELSE ret[k]])

\* _process_info_installed_output with filter_attrs = {"version"}: name is the
\* package of the block being read, ver its version attribute (0: not seen)
RECURSIVE process_info_installed_output(_, _, _, _)
process_info_installed_output(lines, ret, name, ver) ==
    LET commit == IF name # "" /\ ver # 0
                  THEN [k \in DOMAIN ret \cup {name} |-> IF k = name THEN ver ELSE ret[k]]
                  ELSE ret
    IN IF lines = <<>> THEN commit
       ELSE LET line == Head(lines)
            IN IF line = <<>>
               THEN process_info_installed_output(Tail(lines), commit, "", 0)
               ELSE IF line[1] = "Package:" /\ Len(line) >= 2
               THEN process_info_installed_output(Tail(lines), ret, line[2], ver)
               ELSE IF line[1] = "Version:" /\ Len(line) >= 2
               THEN process_info_installed_output(Tail(lines), ret, name, StrToVer(line[2]))
               ELSE process_info_installed_output(Tail(lines), ret, name, ver)

\* _get_state: the flag of the last "Status" line, "" when there is none
RECURSIVE get_state_flag(_, _)
get_state_flag(lines, flag) ==
    IF lines = <<>> THEN flag
    ELSE LET line == Head(lines)
         IN get_state_flag(Tail(lines),
                IF Len(line) = 4 /\ line[1] = "Status:" THEN line[3] ELSE flag)

\* _parse_reported_packages_from_remove_output: the packages of the lines
\* "Removing <package> (<version>) from <target>..."
RECURSIVE JoinTokens(_)
JoinTokens(toks) ==
    IF Len(toks) = 1 THEN toks[1] ELSE toks[1] \o " " \o JoinTokens(Tail(toks))

RemovePatternMatch(line) ==
    /\ Len(line) >= 7
    /\ line[1] = "Removing"
    /\ \E i \in 3..Len(line) : \E j \in (i + 1)..(Len(line) - 2) :
          line[i] = "(" /\ line[j] = ")" /\ line[j + 1] = "from"

RemovePatternPackage(line) ==
    LET i == CHOOSE k \in 3..Len(line) :
                 /\ line[k] = "("
                 /\ \A m \in 3..(k - 1) : line[m] # "("
    IN JoinTokens(SubSeq(line, 2, i - 1))

\* a variant that would recognise no line
parse_reported_packages_from_remove_output_none(output) == {}

parse_reported_packages_from_remove_output(output) ==
    {RemovePatternPackage(output[n]) :
        n \in {m \in 1..Len(output) : RemovePatternMatch(output[m])}}

\* refresh_db, the loop over the lines of "opkg update": the feeds that failed
HasToken(line, tok) == \E i \in 1..Len(line) : line[i] = tok
FailedToDownload(line) ==
    \E i \in 1..(Len(line) - 2) :
        line[i] = "Failed" /\ line[i + 1] = "to" /\ line[i + 2] = "download"

error_repos(out) ==
    SelectSeq([i \in 1..Len(out) |->
                  IF ~HasToken(out[i], "Inflating") /\ FailedToDownload(out[i]) /\ Len(out[i]) >= 6
                  THEN out[i][6] ELSE ""],
              LAMBDA key : key # "")

(***************************************************************************)
(* refresh_db(failhard=False): raises when the exit code is nonzero and no *)
(* failed feed was found in the output, else returns the feeds' status.    *)
(***************************************************************************)
refresh_db_raises(call) == call.retcode # 0 /\ error_repos(call.stdout) = <<>>

(***************************************************************************)
(* _execute_list_pkgs after its call of "opkg list-installed" has returned *)
(* (or on a cache hit): what it returns, what it appends to errors, and    *)
(* __context__ afterwards.                                                 *)
(***************************************************************************)
StderrOrStdout(out) == IF out.stderr # <<>> THEN out.stderr ELSE out.stdout

execute_list_pkgs(hit, call) ==
    IF hit
    THEN [ret |-> context[1], errors |-> <<>>, context |-> context]
    ELSE IF call.retcode # 0
    THEN [ret |-> EmptySnapshot, errors |-> <<StderrOrStdout(call)>>, context |-> context]
    ELSE LET ret == ParseListInstalled(call.stdout, EmptySnapshot)
         IN [ret |-> ret, errors |-> <<>>, context |-> <<ret>>]

(***************************************************************************)
(* install: sorting the requested packages into the buckets.  A request is *)
(* a sequence of [name, conds]: conds is <<>> when no version was asked    *)
(* for (version_num is None), else the version conditions of version_num,  *)
(* each [oper, ver], oper = "" when the condition has no operator; for a   *)
(* file install name is the path of the package file.                      *)
(***************************************************************************)
NoBuckets ==
    [to_install |-> <<>>, to_install_detached |-> <<>>,
     to_reinstall |-> <<>>, to_downgrade |-> <<>>]

\* _handle_to_install_package
handle_to_install_package(pkg_string, pkg_name, bk) ==
    IF pkg_name \in PACKAGES_TO_INSTALL_DETACHED
    THEN [bk EXCEPT !.to_install_detached = Append(@, pkg_string)]
    ELSE [bk EXCEPT !.to_install = Append(@, pkg_string)]

\* a variant that would compare with ">=" whatever the operator is
versions_compare_at_least(ver1, oper, ver2) == ver1 >= ver2

\* salt.utils.versions.compare(ver1, oper, ver2, cmp_func=version_cmp)
versions_compare(ver1, oper, ver2) ==
    CASE oper = "==" -> ver1 = ver2
      [] oper = ">=" -> ver1 >= ver2

\* a variant that would allow downgrades whatever only_upgrade is
downgrade_allowed_always(only_upgrade) == TRUE

\* "if not kwargs.get('only_upgrade', False)"
downgrade_allowed(only_upgrade) == ~only_upgrade

\* the body of "for version_condition in version_conditions"
bucket_condition(pkgname, cond, old, reinstall, only_upgrade, bk) ==
    LET cver == IF pkgname \in DOMAIN old THEN old[pkgname] ELSE 0
    IN IF cond.oper # ""
       THEN handle_to_install_package(PkgStr(pkgname, cond.oper, cond.ver), pkgname, bk)
       ELSE LET pkgstr == PkgStr(pkgname, "=", cond.ver)
            IN IF reinstall /\ cver # 0 /\ versions_compare(cond.ver, "==", cver)
               THEN [bk EXCEPT !.to_reinstall = Append(@, pkgstr)]
               ELSE IF cver = 0 \/ versions_compare(cond.ver, ">=", cver)
               THEN handle_to_install_package(pkgstr, pkgname, bk)
               ELSE IF downgrade_allowed(only_upgrade)
               THEN [bk EXCEPT !.to_downgrade = Append(@, pkgstr)]
               ELSE handle_to_install_package(pkgstr, pkgname, bk)

RECURSIVE bucket_conditions(_, _, _, _, _, _)
bucket_conditions(pkgname, conds, old, reinstall, only_upgrade, bk) ==
    IF conds = <<>> THEN bk
    ELSE bucket_conditions(pkgname, Tail(conds), old, reinstall, only_upgrade,
            bucket_condition(pkgname, Head(conds), old, reinstall, only_upgrade, bk))

\* the body of "for pkgname, pkgversion in pkg_params.items()"
RECURSIVE bucket_packages(_, _, _, _, _)
bucket_packages(pkg_params, old, reinstall, only_upgrade, bk) ==
    IF pkg_params = <<>> THEN bk
    ELSE LET pkgname == Head(pkg_params).name
             conds == Head(pkg_params).conds
             next == IF conds = <<>>
                     THEN IF reinstall /\ pkgname \in DOMAIN old
                          THEN [bk EXCEPT !.to_reinstall = Append(@, pkgname)]
                          ELSE [bk EXCEPT !.to_install = Append(@, pkgname)]
                     ELSE bucket_conditions(pkgname, conds, old, reinstall, only_upgrade, bk)
         IN bucket_packages(Tail(pkg_params), old, reinstall, only_upgrade, next)

\* _is_testmode and _append_noaction_if_testmode
is_testmode(k) == k.test \/ k.opts_test
append_noaction_if_testmode(cmd, k) ==
    IF is_testmode(k) THEN Append(cmd, "--noaction") ELSE cmd

\* install, from "cmd_prefix = ..." to the two command lists
install_plan(k, old) ==
    LET prefix0 == append_noaction_if_testmode(<<"opkg", "install">>, k)
        file == k.pkg_type = "file"
        prefix1 == IF file /\ k.reinstall THEN Append(prefix0, "--force-reinstall") ELSE prefix0
        prefix2 == IF file /\ downgrade_allowed(k.only_upgrade) THEN Append(prefix1, "--force-downgrade") ELSE prefix1
        prefix == IF ~file /\ ~k.install_recommends
                  THEN Append(prefix2, "--no-install-recommends") ELSE prefix2
        bk == IF file
              THEN [NoBuckets EXCEPT !.to_install =
                        [i \in 1..Len(k.pkg_params) |-> k.pkg_params[i].name]]
              ELSE bucket_packages(k.pkg_params, old, k.reinstall, k.only_upgrade, NoBuckets)
    IN [buckets |-> bk,
        cmds |-> build_install_command_list(prefix, bk.to_install, bk.to_downgrade,
                                            bk.to_reinstall),
        detached_cmds |-> build_install_command_list(prefix, bk.to_install_detached,
                                                     <<>>, <<>>)]

(***************************************************************************)
(* The state of an operation.                                              *)
(***************************************************************************)
NoKw ==
    [pkg_type |-> "repository", pkg_params |-> <<>>, refresh |-> FALSE,
     reinstall |-> FALSE, only_upgrade |-> FALSE, install_recommends |-> TRUE,
     test |-> FALSE, opts_test |-> FALSE, notify |-> FALSE,
     remove_dependencies |-> FALSE, auto_remove_deps |-> FALSE, names |-> <<>>,
     parse_output |-> FALSE, should_process_in_detached_mode |-> FALSE,
     pkg1 |-> [epoch |-> 0, upstream |-> 1, pre |-> FALSE],
     pkg2 |-> [epoch |-> 0, upstream |-> 1, pre |-> FALSE], ignore_epoch |-> FALSE]

NoLoc ==
    [hit |-> FALSE, old |-> EmptySnapshot, errors |-> <<>>, cmds |-> <<>>,
     detached_cmds |-> <<>>, buckets |-> NoBuckets, failed_feeds |-> <<>>,
     cmd |-> <<>>, reported |-> {}, result |-> NoneResult, total |-> 0,
     i |-> 0, ret |-> <<>>, extra |-> {}]

NoOutcome ==
    [kind |-> "none", exc |-> "", msg |-> "", errors |-> <<>>,
     has_changes |-> FALSE, changes |-> <<>>, restarted |-> FALSE,
     restartcheck |-> "not run"]

Returned(changes, restarted) ==
    [kind |-> "return", exc |-> "", msg |-> "", errors |-> <<>>,
     has_changes |-> TRUE, changes |-> changes, restarted |-> restarted,
     restartcheck |-> "not run"]

Raised(exc, msg, errors) ==
    [kind |-> "raise", exc |-> exc, msg |-> msg, errors |-> errors,
     has_changes |-> FALSE, changes |-> <<>>, restarted |-> FALSE,
     restartcheck |-> "not run"]

RaisedWithChanges(exc, msg, errors, changes) ==
    [kind |-> "raise", exc |-> exc, msg |-> msg, errors |-> errors,
     has_changes |-> TRUE, changes |-> changes, restarted |-> FALSE,
     restartcheck |-> "not run"]

\* the outcome of a call in which restartcheck.restartcheck has returned rs
Checked(o, rs) == [o EXCEPT !.restartcheck = rs]

NoDry == [set |-> FALSE, kw |-> NoKw, installed |-> EmptySnapshot, outcome |-> NoOutcome]

\* a call's arguments apart from the dry-run flags
Request(k) == [k EXCEPT !.test = FALSE, !.opts_test = FALSE]

\* the real install that repeats the dry-run install remembered in dry
RepeatsDryRun(name, k) ==
    /\ dry.set
    /\ name = "install"
    /\ ~is_testmode(k)
    /\ Request(k) = Request(dry.kw)
    /\ installed = dry.installed

Begin(name, k) ==
    /\ pc = "idle"
    /\ dry.set => RepeatsDryRun(name, k)
    /\ opname' = name
    /\ kw' = k
    /\ log' = <<>>
    /\ outcome' = NoOutcome
    /\ cmd_ret' = NoneResult
    /\ pre' = [installed |-> installed, held |-> held]
    /\ UNCHANGED <<installed, held, dry, running, b, proc, mon, clock>>

\* a step of the running operation that is not an execution of the tool
Step == UNCHANGED <<installed, held, opname, kw, cmd_ret, log, pre, dry, running, b, proc, mon, clock>>

Finish(o) ==
    /\ outcome' = o
    /\ pc' = "done"
    /\ inv' = NoInvocation

\* the caller takes the result; the next call starts from the same module state
Reset ==
    /\ pc = "done"
    /\ pc' = "idle"
    /\ opname' = ""
    /\ kw' = NoKw
    /\ loc' = NoLoc
    /\ inv' = NoInvocation
    /\ cmd_ret' = NoneResult
    /\ log' = <<>>
    /\ outcome' = NoOutcome
    /\ dry' = IF opname = "install" /\ is_testmode(kw)
              THEN [set |-> TRUE, kw |-> kw, installed |-> installed, outcome |-> outcome]
              ELSE NoDry
    /\ pre' = [installed |-> installed, held |-> held]
    /\ running' = 0
    /\ UNCHANGED <<installed, held, context, b, proc, mon, clock>>

ForgetDryRun ==
    /\ pc = "idle"
    /\ dry.set
    /\ dry' = NoDry
    /\ UNCHANGED <<installed, held, context, pc, opname, kw, loc, inv, cmd_ret, log,
                   outcome, pre, running, b, proc, mon, clock>>

\* the call of _execute_list_pkgs: a cache hit needs no execution of the tool
\* a variant that would leave the cached snapshot in place
pop_list_pkgs_kept(ctx) == ctx

\* __context__.pop("pkg.list_pkgs", None)
pop_list_pkgs(ctx) == <<>>

StartListPkgs(site, l) ==
    IF context # <<>>
    THEN /\ inv' = NoInvocation
         /\ loc' = [l EXCEPT !.hit = TRUE]
    ELSE /\ inv' = Invocation(site, "_call_opkg", <<"opkg", "list-installed">>, FALSE)
         /\ loc' = [l EXCEPT !.hit = FALSE]

\* a variant that would overlook a failed listing
ListFailed_never(list_pkgs_errors) == FALSE

\* "if list_pkgs_errors:"
ListFailed(list_pkgs_errors) == list_pkgs_errors # <<>>

\* a variant that would drop the error of a failed command
AppendCommandError_never(errors, out) == errors

\* "if out['retcode'] != 0: errors.append(out['stderr'] or out['stdout'])"
AppendCommandError(errors, out) ==
    IF out.retcode # 0 THEN Append(errors, StderrOrStdout(out)) ELSE errors

\* restartcheck.restartcheck: nothing to restart, a dict with a comment, or
\* the services to restart
RestartResults == {"clean", "comment", "restart"}

\* a variant that would leave the comment out of errors
get_restartcheck_result_without_comment(errors, rs) == errors

\* _get_restartcheck_result
get_restartcheck_result(errors, rs) ==
    IF rs = "comment" THEN Append(errors, <<"restartcheck comment">>) ELSE errors

(***************************************************************************)
(* install                                                                 *)
(***************************************************************************)
Conds == {<<>>} \cup {<<[oper |-> "", ver |-> v]>> : v \in Versions}
              \cup {<<[oper |-> ">=", ver |-> 1]>>}

RepositoryRequests ==
    {<<>>} \cup {<<[name |-> "vim", conds |-> c]>> : c \in Conds}
           \cup {<<[name |-> "ni-sysmgmt-salt-minion-support", conds |-> c]>> : c \in Conds}
           \cup {<<[name |-> "vim", conds |-> <<>>],
                   [name |-> "ni-sysmgmt-salt-minion-support",
                    conds |-> <<[oper |-> "", ver |-> 1]>>]>>}

InstallCalls ==
    {[NoKw EXCEPT !.pkg_params = r, !.refresh = rf, !.reinstall = ri, !.test = t] :
        r \in RepositoryRequests, rf \in BOOLEAN, ri \in BOOLEAN, t \in BOOLEAN}
    \cup
    {[NoKw EXCEPT !.pkg_type = "file",
                  !.pkg_params = <<[name |-> "/tmp/vim.ipk", conds |-> <<>>]>>,
                  !.reinstall = ri, !.test = t] : ri \in BOOLEAN, t \in BOOLEAN}

\* install up to the call of _execute_list_pkgs for the old snapshot
InstallStart ==
    /\ \E k \in InstallCalls : Begin("install", k)
    /\ pc' = "install_list_old"
    /\ StartListPkgs("pre_snapshot", NoLoc)
    /\ UNCHANGED context

\* from the old snapshot to the command plan and the call of refresh_db
InstallPlan ==
    /\ pc = "install_list_old"
    /\ ~inv.active
    /\ Step
    /\ LET lr == execute_list_pkgs(loc.hit, cmd_ret)
           plan == install_plan(kw, lr.ret)
       IN /\ context' = lr.context
          /\ IF ListFailed(lr.errors)
             THEN /\ Finish(Raised("CommandExecutionError",
                                   "Problem encountered before installing package(s)",
                                   lr.errors))
                  /\ loc' = loc
             ELSE IF kw.pkg_params = <<>>
                     \/ (plan.cmds = <<>> /\ plan.detached_cmds = <<>>)
             THEN /\ Finish(Returned(<<>>, FALSE))
                  /\ loc' = [loc EXCEPT !.old = lr.ret]
             ELSE /\ loc' = [loc EXCEPT !.old = lr.ret, !.buckets = plan.buckets,
                                        !.cmds = plan.cmds,
                                        !.detached_cmds = plan.detached_cmds]
                  /\ outcome' = outcome
                  /\ IF kw.refresh
                     THEN /\ pc' = "install_refresh"
                          /\ inv' = Invocation("refresh", "_call_opkg",
                                               <<"opkg", "update">>, TRUE)
                     ELSE /\ pc' = "install_cmds"
                          /\ inv' = inv

\* refresh_db has returned (or raised)
InstallRefreshed ==
    /\ pc = "install_refresh"
    /\ ~inv.active
    /\ Step
    /\ context' = context
    /\ IF refresh_db_raises(cmd_ret)
       THEN /\ Finish(Raised("CommandExecutionError", "refresh_db", <<cmd_ret.stdout>>))
            /\ loc' = loc
       ELSE /\ pc' = "install_cmds"
            /\ loc' = [loc EXCEPT !.failed_feeds = error_repos(cmd_ret.stdout)]
            /\ UNCHANGED <<inv, outcome>>

\* "for cmd in cmds: _execute_install_command(cmd, is_testmode, errors,
\* test_packages)": the function has six parameters without defaults, so the
\* first call raises TypeError before any command is executed; with no
\* command in cmds the loop is empty and install goes on to list_pkgs()
InstallCommands ==
    /\ pc = "install_cmds"
    /\ Step
    /\ IF loc.cmds # <<>>
       THEN /\ Finish(Raised("TypeError",
                             "_execute_install_command() missing 2 required positional arguments",
                             <<>>))
            /\ UNCHANGED <<loc, context>>
       ELSE /\ context' = pop_list_pkgs(context)
            /\ pc' = "install_list_new"
            /\ inv' = Invocation("post_snapshot", "_call_opkg",
                                 <<"opkg", "list-installed">>, FALSE)
            /\ UNCHANGED <<loc, outcome>>

\* "for pkgname in to_reinstall": the reinstalled packages are put in ret
ReinstallUpdate(ret, to_reinstall, old, new) ==
    LET names == {n \in Range(to_reinstall) : n \notin DOMAIN ret \/ n \in DOMAIN old}
    IN [k \in DOMAIN ret \cup names |->
          IF k \in names
          THEN [old |-> VersionOrEmpty(old, k), new |-> VersionOrEmpty(new, k)]
          ELSE ret[k]]

FeedUpdateError(failed_feeds) ==
    IF failed_feeds # <<>> THEN <<<<"Error getting repos">> \o failed_feeds>> ELSE <<>>

\* list_pkgs() for the new snapshot has returned (or raised); the rest of install
InstallFinish ==
    /\ pc = "install_list_new"
    /\ ~inv.active
    /\ Step
    /\ loc' = loc
    /\ LET lr == execute_list_pkgs(FALSE, cmd_ret)
       IN /\ context' = lr.context
          /\ IF lr.errors # <<>>
             THEN Finish(Raised("CommandExecutionError",
                                "Problem encountered listing package(s)", lr.errors))
             ELSE \E rs \in RestartResults :
                    LET new == lr.ret
                        ret == ReinstallUpdate(compare_dicts(loc.old, new),
                                               loc.buckets.to_reinstall, loc.old, new)
                        errors == get_restartcheck_result(loc.errors, rs)
                    IN IF errors # <<>>
                       THEN Finish(Checked(RaisedWithChanges("CommandExecutionError",
                                     "Problem encountered installing package(s)",
                                     errors \o FeedUpdateError(loc.failed_feeds), ret), rs))
                       ELSE Finish(Checked(Returned(ret, rs = "restart"), rs))

(***************************************************************************)
(* remove and purge                                                        *)
(***************************************************************************)
NameLists == {<<"vim">>, <<"ni-sysmgmt-salt-minion-support">>,
              <<"vim", "ni-sysmgmt-salt-minion-support">>}

RemoveCalls ==
    {[NoKw EXCEPT !.names = n, !.test = t, !.notify = nt,
                  !.remove_dependencies = rd] :
        n \in NameLists, t \in BOOLEAN, nt \in BOOLEAN, rd \in BOOLEAN}

\* _get_operation_from_output_line
get_operation_from_output_line(line, include_download) ==
    IF line = <<>> THEN None
    ELSE CASE line[1] = "Installing" -> "install"
           [] line[1] = "Upgrading" -> "upgrade"
           [] line[1] = "Removing" -> "remove"
           [] line[1] = "Downgrading" -> "downgrade"
           [] line[1] = "Downloading" /\ include_download -> "download"
           [] OTHER -> None

\* a variant that would count the lines of a failed dry run
get_total_packages_of_any_result(out) ==
    Cardinality({i \in 1..Len(out.stdout) :
                   get_operation_from_output_line(out.stdout[i], FALSE) # None})

\* _get_total_packages once its dry run of the command has returned
get_total_packages(out) ==
    IF out.retcode # 0 THEN -1
    ELSE Cardinality({i \in 1..Len(out.stdout) :
                        get_operation_from_output_line(out.stdout[i], FALSE) # None})

\* the keyword arguments remove works with: purge(name, pkgs, **kwargs) is
\* a variant that would pass the keyword arguments on
remove_kwargs_passed_on(name, k) == k

\* "return remove(name=name, pkgs=pkgs)", its keyword arguments are not passed
\* on (__opts__ is global)
remove_kwargs(name, k) ==
    IF name = "purge"
    THEN [NoKw EXCEPT !.names = k.names, !.opts_test = k.opts_test]
    ELSE k

\* remove up to the call of info_installed for the old snapshot
RemoveStart ==
    /\ \E k \in RemoveCalls : Begin("remove", k)
    /\ pc' = "remove_list_old"
    /\ inv' = Invocation("pre_snapshot", "_call_opkg", <<"opkg", "status">>, FALSE)
    /\ loc' = NoLoc
    /\ UNCHANGED context

PurgeCalls ==
    {[NoKw EXCEPT !.names = n, !.test = t, !.remove_dependencies = rd] :
        n \in NameLists, t \in BOOLEAN, rd \in BOOLEAN}

PurgeStart ==
    /\ \E k \in PurgeCalls : Begin("purge", k)
    /\ pc' = "remove_list_old"
    /\ inv' = Invocation("pre_snapshot", "_call_opkg", <<"opkg", "status">>, FALSE)
    /\ loc' = NoLoc
    /\ UNCHANGED context

\* a variant that would keep the names that are not installed
remove_targets_all(pkg_params, old) == pkg_params

\* "targets = [x for x in pkg_params if x in old]"
remove_targets(pkg_params, old) ==
    SelectSeq(pkg_params, LAMBDA x : x \in DOMAIN old)

remove_command(k, targets) ==
    LET c0 == append_noaction_if_testmode(<<"opkg", "remove">>, k)
        c1 == IF k.remove_dependencies
              THEN Append(c0, "--force-removal-of-dependent-packages") ELSE c0
        c2 == IF k.auto_remove_deps THEN Append(c1, "--autoremove") ELSE c1
    IN c2 \o targets

\* from the old snapshot to the first call of _execute_remove_command
RemovePlan ==
    /\ pc = "remove_list_old"
    /\ ~inv.active
    /\ Step
    /\ context' = context
    /\ IF cmd_ret.retcode # 0
       THEN /\ Finish(Raised("CommandExecutionError", "info_installed",
                             <<StderrOrStdout(cmd_ret)>>))
            /\ loc' = loc
       ELSE LET rk == remove_kwargs(opname, kw)
                old == process_info_installed_output(cmd_ret.stdout, EmptySnapshot, "", 0)
                targets == remove_targets(rk.names, old)
                cmd == remove_command(rk, targets)
            IN IF targets = <<>>
               THEN /\ Finish(Returned(<<>>, FALSE))
                    /\ loc' = [loc EXCEPT !.old = old]
               ELSE /\ loc' = [loc EXCEPT !.old = old, !.cmd = cmd]
                    /\ outcome' = outcome
                    /\ IF rk.notify /\ ~is_testmode(rk)
                       THEN /\ pc' = "remove_count"
                            /\ inv' = Invocation("precount", "_call_opkg",
                                                 Append(cmd, "--noaction"), FALSE)
                       ELSE /\ pc' = "remove_cmd"
                            /\ inv' = Invocation("command", "_call_opkg", cmd, FALSE)

\* _get_total_packages has returned: the command is run by
\* _process_with_progress (subprocess.Popen), or by _call_opkg when the total
\* is unknown
RemoveCounted ==
    /\ pc = "remove_count"
    /\ ~inv.active
    /\ Step
    /\ context' = context
    /\ outcome' = outcome
    /\ pc' = "remove_cmd"
    /\ LET total == get_total_packages(cmd_ret)
       IN /\ loc' = [loc EXCEPT !.total = total]
          /\ inv' = Invocation("command",
                               IF total # -1 THEN "Popen" ELSE "_call_opkg",
                               loc.cmd, FALSE)

\* the remove command has returned: the rest of _execute_remove_command, then
\* the cache is dropped and info_installed is called for the new snapshot
RemoveExecuted ==
    /\ pc = "remove_cmd"
    /\ ~inv.active
    /\ Step
    /\ outcome' = outcome
    /\ loc' = [loc EXCEPT
                 !.errors = AppendCommandError(loc.errors, cmd_ret),
                 !.reported = IF cmd_ret.retcode = 0
                                 /\ is_testmode(remove_kwargs(opname, kw))
                              THEN parse_reported_packages_from_remove_output(cmd_ret.stdout)
                              ELSE {}]
    /\ context' = pop_list_pkgs(context)
    /\ pc' = "remove_list_new"
    /\ inv' = Invocation("post_snapshot", "_call_opkg", <<"opkg", "status">>, FALSE)

\* info_installed for the new snapshot has returned (or raised); the rest of remove
RemoveFinish ==
    /\ pc = "remove_list_new"
    /\ ~inv.active
    /\ Step
    /\ loc' = loc
    /\ context' = context
    /\ IF cmd_ret.retcode # 0
       THEN Finish(Raised("CommandExecutionError", "info_installed",
                          <<StderrOrStdout(cmd_ret)>>))
       ELSE \E rs \in RestartResults :
              LET listed == process_info_installed_output(cmd_ret.stdout, EmptySnapshot, "", 0)
                  new == IF is_testmode(remove_kwargs(opname, kw))
                         THEN [p \in (DOMAIN listed) \ loc.reported |-> listed[p]]
                         ELSE listed
                  ret == compare_dicts(loc.old, new)
                  errors == get_restartcheck_result(loc.errors, rs)
              IN IF errors # <<>>
                 THEN Finish(Checked(RaisedWithChanges("CommandExecutionError",
                               "Problem encountered removing package(s)", errors, ret), rs))
                 ELSE Finish(Checked(Returned(ret, rs = "restart"), rs))

(***************************************************************************)
(* upgrade                                                                 *)
(***************************************************************************)
UpgradeCalls ==
    {[NoKw EXCEPT !.refresh = rf, !.test = t] : rf \in BOOLEAN, t \in BOOLEAN}

\* upgrade up to its first call of the tool: refresh_db when refresh is set,
\* else _execute_list_pkgs for the old snapshot
UpgradeStart ==
    /\ \E k \in UpgradeCalls :
          /\ Begin("upgrade", k)
          /\ IF k.refresh
             THEN /\ pc' = "upgrade_refresh"
                  /\ inv' = Invocation("refresh", "_call_opkg", <<"opkg", "update">>, TRUE)
                  /\ loc' = NoLoc
             ELSE /\ pc' = "upgrade_list_old"
                  /\ StartListPkgs("pre_snapshot", NoLoc)
    /\ UNCHANGED context

\* refresh_db has returned (or raised)
UpgradeRefreshed ==
    /\ pc = "upgrade_refresh"
    /\ ~inv.active
    /\ Step
    /\ context' = context
    /\ IF refresh_db_raises(cmd_ret)
       THEN /\ Finish(Raised("CommandExecutionError", "refresh_db", <<cmd_ret.stdout>>))
            /\ loc' = loc
       ELSE /\ pc' = "upgrade_list_old"
            /\ StartListPkgs("pre_snapshot", loc)
            /\ outcome' = outcome

\* the old snapshot has been taken: the upgrade command is called
UpgradeSnapshot ==
    /\ pc = "upgrade_list_old"
    /\ ~inv.active
    /\ Step
    /\ LET lr == execute_list_pkgs(loc.hit, cmd_ret)
       IN /\ context' = lr.context
          /\ IF ListFailed(lr.errors)
             THEN /\ Finish(Raised("CommandExecutionError",
                                   "Problem encountered before upgrading package(s)",
                                   lr.errors))
                  /\ loc' = loc
             ELSE /\ loc' = [loc EXCEPT !.old = lr.ret]
                  /\ outcome' = outcome
                  /\ pc' = "upgrade_cmd"
                  /\ inv' = Invocation("command", "_call_opkg", <<"opkg", "upgrade">>, FALSE)

\* the upgrade command has returned: the cache is dropped and
\* _execute_list_pkgs is called for the new snapshot
UpgradeExecuted ==
    /\ pc = "upgrade_cmd"
    /\ ~inv.active
    /\ Step
    /\ outcome' = outcome
    /\ loc' = [loc EXCEPT !.result = cmd_ret]
    /\ context' = pop_list_pkgs(context)
    /\ pc' = "upgrade_list_new"
    /\ inv' = Invocation("post_snapshot", "_call_opkg", <<"opkg", "list-installed">>, FALSE)

\* a variant that would drop the error of a failed upgrade command
UpgradeError_never(result) == <<>>

\* "if result['retcode'] != 0: errors.append(result)"
UpgradeError(result) == IF result.retcode # 0 THEN <<result>> ELSE <<>>

\* the new snapshot has been taken (or not); the rest of upgrade.  Without a
\* new snapshot ret stays {"changes": {}, "result": True, "comment": ""}.
UpgradeFinish ==
    /\ pc = "upgrade_list_new"
    /\ ~inv.active
    /\ Step
    /\ loc' = loc
    /\ LET lr == execute_list_pkgs(FALSE, cmd_ret)
       IN /\ context' = lr.context
          /\ \E rs \in RestartResults :
               LET errors == get_restartcheck_result(UpgradeError(loc.result), rs)
               IN IF errors # <<>>
                  THEN IF lr.errors = <<>>
                       THEN Finish(Checked(RaisedWithChanges("CommandExecutionError",
                                     "Problem encountered upgrading packages",
                                     errors, compare_dicts(loc.old, lr.ret)), rs))
                       ELSE Finish(Checked(Raised("CommandExecutionError",
                                     "Problem encountered upgrading packages", errors), rs))
                  ELSE IF lr.errors # <<>>
                       THEN Finish(Checked([Raised("CommandExecutionError",
                                      "Problem encountered after successfully upgrading package(s). Cannot provide changes list.",
                                      lr.errors) EXCEPT !.restarted = (rs = "restart")], rs))
                       ELSE Finish(Checked(Returned(compare_dicts(loc.old, lr.ret),
                                                    rs = "restart"), rs))

(***************************************************************************)
(* hold and unhold: one target after the other; _get_state and _set_state  *)
(* run the tool through cmd.run.                                           *)
(***************************************************************************)
HoldCalls ==
    {[NoKw EXCEPT !.names = n, !.test = t, !.opts_test = ot] :
        n \in NameLists \cup {<<"vim", "vim">>}, t \in BOOLEAN, ot \in BOOLEAN}

GetState(site, target) == Invocation(site, "cmd.run", <<"opkg", "status", target>>, TRUE)

HoldStart ==
    /\ \E name \in {"hold", "unhold"} : \E k \in HoldCalls :
          /\ Begin(name, k)
          /\ inv' = GetState("get_state", k.names[1])
    /\ pc' = "hold_state"
    /\ loc' = [NoLoc EXCEPT !.i = 1]
    /\ UNCHANGED context

TargetResult(changes, result, comment) ==
    [changes |-> changes, result |-> result, comment |-> comment]

\* the end of the body of "for target in targets"
NextTarget(ret, extra) ==
    /\ loc' = [loc EXCEPT !.ret = ret, !.extra = extra,
                          !.i = IF loc.i < Len(kw.names) THEN loc.i + 1 ELSE loc.i]
    /\ IF loc.i < Len(kw.names)
       THEN /\ pc' = "hold_state"
            /\ inv' = GetState("get_state", kw.names[loc.i + 1])
            /\ outcome' = outcome
       ELSE Finish([Returned(<<>>, FALSE) EXCEPT
                      !.has_changes = FALSE, !.changes = [targets |-> ret, extra |-> extra]])

SetEntry(ret, target, entry) ==
    [t \in DOMAIN ret \cup {target} |-> IF t = target THEN entry ELSE ret[t]]

\* "if 'test' in __opts__ and __opts__['test']"
hold_testmode(k) == k.opts_test

\* a variant that would set the flag whatever the state is
hold_wanted_always(name, state) == TRUE

\* hold: "elif state != 'hold'"; unhold: "elif state == 'hold'"
hold_wanted(name, state) == IF name = "hold" THEN state # "hold" ELSE state = "hold"

\* _get_state(target) has returned: the target is reported, or _set_state is called
HoldQueried ==
    /\ pc = "hold_state"
    /\ ~inv.active
    /\ Step
    /\ context' = context
    /\ LET target == kw.names[loc.i]
           state == get_state_flag(cmd_ret.stdout, "")
           wanted == hold_wanted(opname, state)
       IN IF state = ""
          THEN NextTarget(SetEntry(loc.ret, target,
                            TargetResult(<<>>, "False",
                               IF opname = "hold" THEN "not currently held"
                               ELSE "does not have a state")), loc.extra)
          ELSE IF wanted
          THEN IF hold_testmode(kw)
               THEN IF opname = "hold"
                    THEN NextTarget(SetEntry(loc.ret, target,
                                      TargetResult(<<>>, "None", "is set to be held")),
                                    loc.extra)
                    ELSE NextTarget(SetEntry(loc.ret, target,
                                      TargetResult(<<>>, "None", "")),
                                    loc.extra \cup {"comment"})
               ELSE /\ pc' = "hold_set_state"
                    /\ inv' = GetState("set_state_get", target)
                    /\ UNCHANGED <<loc, outcome>>
          ELSE NextTarget(SetEntry(loc.ret, target,
                            TargetResult(<<>>, "True",
                               IF opname = "hold" THEN "is already set to be held"
                               ELSE "is already set not to be held")), loc.extra)

\* _set_state: oldstate has been read, "opkg flag <state> <pkg>" is run
HoldSetQueried ==
    /\ pc = "hold_set_state"
    /\ ~inv.active
    /\ Step
    /\ context' = context
    /\ outcome' = outcome
    /\ loc' = [loc EXCEPT !.cmd = <<get_state_flag(cmd_ret.stdout, "")>>]
    /\ pc' = "hold_flag"
    /\ inv' = Invocation("flag", "cmd.run",
                         <<"opkg", "flag", IF opname = "hold" THEN "hold" ELSE "ok",
                           kw.names[loc.i]>>, TRUE)

\* _set_state has returned: the change of the flag is reported
HoldFlagged ==
    /\ pc = "hold_flag"
    /\ ~inv.active
    /\ Step
    /\ context' = context
    /\ NextTarget(SetEntry(loc.ret, kw.names[loc.i],
                    TargetResult([old |-> loc.cmd[1],
                                  new |-> IF opname = "hold" THEN "hold" ELSE "ok"],
                                 "True",
                                 IF opname = "hold" THEN "is now being held"
                                 ELSE "is no longer being held")), loc.extra)

(***************************************************************************)
(* version_cmp, called on (pkg1, pkg2) and, when that result is            *)
(* determinate, on (pkg2, pkg1): loc.i is the call, loc.total the probe,   *)
(* loc.cmd the compare utility, loc.ret the results so far.                *)
(***************************************************************************)
\* "normalize = lambda x: str(x).split(':', 1)[-1] if ignore_epoch else str(x)"
normalize(x, ignore_epoch) == IF ignore_epoch THEN [x EXCEPT !.epoch = 0] ELSE x

\* a variant whose first probe would give the verdict of the last one
ProbesWithoutSign ==
    << [oper |-> "<<", ret |-> 1], [oper |-> "=", ret |-> 0], [oper |-> ">>", ret |-> 1] >>

\* "for oper, ret in (('<<', -1), ('=', 0), ('>>', 1))"
Probes ==
    << [oper |-> "<<", ret |-> -1], [oper |-> "=", ret |-> 0], [oper |-> ">>", ret |-> 1] >>

Verdict(ret) == [determinate |-> TRUE, value |-> ret]
Indeterminate == [determinate |-> FALSE, value |-> 0]

\* the choice of the compare utility; <<>> when there is none
cmd_compare(opkg_version, helper) ==
    IF opkg_version \in {"0.3.4"} THEN <<"opkg", "compare-versions">>
    ELSE IF helper THEN <<"opkg-compare-versions">>
    ELSE <<>>

VersionInvocation == Invocation("version", "cmd.run_stdout", <<"opkg", "--version">>, FALSE)

\* the k-th probe of call i
Probe(utility, i, k) ==
    LET a == normalize(IF i = 1 THEN kw.pkg1 ELSE kw.pkg2, kw.ignore_epoch)
        c == normalize(IF i = 1 THEN kw.pkg2 ELSE kw.pkg1, kw.ignore_epoch)
    IN Invocation("probe", "cmd.retcode",
                  utility \o <<shlex_quote(a), Probes[k].oper, shlex_quote(c)>>, FALSE)

CmpStart ==
    /\ \E a \in VersionArgs : \E c \in VersionArgs : \E ie \in BOOLEAN :
          Begin("version_cmp", [NoKw EXCEPT !.pkg1 = a, !.pkg2 = c, !.ignore_epoch = ie])
    /\ inv' = VersionInvocation
    /\ pc' = "cmp_version"
    /\ loc' = [NoLoc EXCEPT !.i = 1]
    /\ UNCHANGED context

\* a call of version_cmp returns result
EndPass(result) ==
    IF loc.i = 1 /\ result.determinate
    THEN /\ loc' = [loc EXCEPT !.ret = <<result>>, !.i = 2, !.total = 0, !.cmd = <<>>]
         /\ pc' = "cmp_version"
         /\ inv' = VersionInvocation
         /\ outcome' = outcome
    ELSE /\ loc' = loc
         /\ Finish([Returned(<<>>, FALSE) EXCEPT
                      !.has_changes = FALSE, !.changes = Append(loc.ret, result)])

\* "opkg --version" has returned: the compare utility is chosen
CmpVersioned ==
    /\ pc = "cmp_version"
    /\ ~inv.active
    /\ UNCHANGED <<installed, held, context, opname, kw, cmd_ret, pre, dry, running, b,
                   proc, mon, clock>>
    /\ IF cmd_ret.stdout = <<>> \/ Len(cmd_ret.stdout[1]) < 3
       THEN /\ Finish(Raised("IndexError", "list index out of range", <<>>))
            /\ UNCHANGED <<loc, log>>
       ELSE \E helper \in BOOLEAN :
              LET opkg_version == cmd_ret.stdout[1][3]
                  utility == cmd_compare(opkg_version, helper)
              IN /\ log' = IF opkg_version \in {"0.3.4"} THEN log
                           ELSE Append(log, [site |-> "which", via |-> "salt.utils.path.which",
                                             cmd |-> <<"opkg-compare-versions">>,
                                             retcode |-> IF helper THEN 0 ELSE 1,
                                             stdout |-> <<>>])
                 /\ IF utility = <<>>
                    THEN EndPass(Indeterminate)
                    ELSE /\ loc' = [loc EXCEPT !.cmd = utility, !.total = 1]
                         /\ pc' = "cmp_probe"
                         /\ inv' = Probe(utility, loc.i, 1)
                         /\ outcome' = outcome

\* a probe has returned
CmpProbed ==
    /\ pc = "cmp_probe"
    /\ ~inv.active
    /\ Step
    /\ context' = context
    /\ IF cmd_ret.retcode = 0
       THEN EndPass(Verdict(Probes[loc.total].ret))
       ELSE IF loc.total < Len(Probes)
       THEN /\ loc' = [loc EXCEPT !.total = loc.total + 1]
            /\ pc' = "cmp_probe"
            /\ inv' = Probe(loc.cmd, loc.i, loc.total + 1)
            /\ outcome' = outcome
       ELSE EndPass(Indeterminate)

(***************************************************************************)
(* The plan builder applied to arbitrary buckets.                          *)
(***************************************************************************)
NoBuild ==
    [cmd_prefix |-> <<>>, to_install |-> <<>>, to_downgrade |-> <<>>,
     to_reinstall |-> <<>>, prefix_after |-> <<>>, cmds |-> <<>>, done |-> FALSE]

RECURSIVE SeqsUpTo(_, _)
SeqsUpTo(S, n) ==
    IF n = 0 THEN {<<>>}
    ELSE SeqsUpTo(S, n - 1) \cup {Append(q, x) : q \in SeqsUpTo(S, n - 1), x \in S}

BuildTargets == {"vim", "ni-sysmgmt-salt-minion-support=1"}
BuildPrefixes == {<<"opkg", "install">>, <<"opkg", "install", "--noaction">>}

Build ==
    /\ ~b.done
    /\ LET built == build_install(b.cmd_prefix, b.to_install, b.to_downgrade,
                                  b.to_reinstall)
       IN b' = [b EXCEPT !.cmds = built.cmds,
                         !.prefix_after = built.cmd_prefix,
                         !.done = TRUE]
    /\ UNCHANGED <<installed, held, context, pc, opname, kw, loc, inv, cmd_ret, log,
                   outcome, pre, dry, running,
                   proc, mon, clock>>

(***************************************************************************)
(* _execute_install_command, called with its six arguments: cmd in         *)
(* loc.cmd, parse_output and should_process_in_detached_mode in kw, errors *)
(* in loc.errors, parsed_packages in loc.ret; kw.notify is                 *)
(* __opts__['notify_pkg_progress'].                                        *)
(***************************************************************************)
\* _parse_reported_packages_from_install_output: the package and the version
\* of a line "Installing <pkg> (<ver>) on <target>" or "Upgrading <pkg> from
\* <old> to <ver> on <target>"
InstallPatternMatch(line) ==
    /\ Len(line) >= 6
    /\ line[1] = "Installing"
    /\ line[3] = "(" /\ line[5] = ")" /\ line[6] = "on"

UpgradePatternMatch(line) ==
    /\ Len(line) >= 7
    /\ line[1] = "Upgrading"
    /\ line[3] = "from" /\ line[5] = "to" /\ line[7] = "on"

RECURSIVE parse_reported_packages_from_install_output(_, _)
parse_reported_packages_from_install_output(output, reported_pkgs) ==
    IF output = <<>> THEN reported_pkgs
    ELSE LET line == Head(output)
             upd(pkg, ver) == [k \in DOMAIN reported_pkgs \cup {pkg} |->
                                  IF k = pkg THEN ver ELSE reported_pkgs[k]]
             next == IF InstallPatternMatch(line) THEN upd(line[2], line[4])
                     ELSE IF UpgradePatternMatch(line) THEN upd(line[2], line[6])
                     ELSE reported_pkgs
         IN parse_reported_packages_from_install_output(Tail(output), next)

\* a variant with the priority monitor, then detached, then plain
install_execution_mode_monitor_first(notify_pkg_progress, parse_output, should_process_in_detached_mode) ==
    IF notify_pkg_progress THEN "monitor"
    ELSE IF should_process_in_detached_mode THEN "detached"
    ELSE "plain"

\* the two conditions of _execute_install_command
install_execution_mode(notify_pkg_progress, parse_output, should_process_in_detached_mode) ==
    IF notify_pkg_progress /\ ~parse_output /\ ~should_process_in_detached_mode
    THEN "monitor"
    ELSE IF should_process_in_detached_mode /\ ~parse_output
    THEN "detached"
    ELSE "plain"

\* a variant that would keep the result of the tool as it is
detached_result_of_tool(res) == res

\* what _execute_install_command keeps of the detached process: its exit code
\* and, when that is not zero, a message
detached_result(res) ==
    Result(res.retcode, <<>>,
           IF res.retcode # 0
           THEN <<"Opkg installation operation failed with: " \o ToString(res.retcode)>>
           ELSE <<>>)

ExecCommands ==
    {<<"opkg", "install", "vim">>,
     <<"opkg", "install", "--noaction", "vim">>,
     <<"opkg", "install", "ni-sysmgmt-salt-minion-support=1">>,
     <<"opkg", "install", "--force-reinstall", "vim", "ni-sysmgmt-salt-minion-support">>}

ExecCalls ==
    {[NoKw EXCEPT !.notify = nt, !.parse_output = po,
                  !.should_process_in_detached_mode = dt] :
        nt \in BOOLEAN, po \in BOOLEAN, dt \in BOOLEAN}

\* up to the first execution of the tool
ExecStart ==
    /\ \E k \in ExecCalls : \E cmd \in ExecCommands :
          LET mode == install_execution_mode(k.notify, k.parse_output,
                                             k.should_process_in_detached_mode)
          IN /\ Begin("_execute_install_command", k)
             /\ loc' = [NoLoc EXCEPT !.cmd = cmd]
             /\ IF mode = "monitor"
                THEN /\ pc' = "exec_count"
                     /\ inv' = Invocation("precount", "_call_opkg",
                                          Append(cmd, "--noaction"), FALSE)
                ELSE /\ pc' = "exec_cmd"
                     /\ inv' = Invocation("command",
                                          IF mode = "detached" THEN "detached"
                                          ELSE "_call_opkg",
                                          cmd, FALSE)
    /\ UNCHANGED context

\* _get_total_packages has returned
ExecCounted ==
    /\ pc = "exec_count"
    /\ ~inv.active
    /\ Step
    /\ context' = context
    /\ outcome' = outcome
    /\ pc' = "exec_cmd"
    /\ LET total == get_total_packages(cmd_ret)
       IN /\ loc' = [loc EXCEPT !.total = total]
          /\ inv' = Invocation("command",
                               IF total # -1 THEN "Popen" ELSE "_call_opkg",
                               loc.cmd, FALSE)

\* the command has been executed: errors and parsed_packages
ExecFinish ==
    /\ pc = "exec_cmd"
    /\ ~inv.active
    /\ Step
    /\ context' = context
    /\ LET out == IF inv.via = "detached" THEN detached_result(cmd_ret) ELSE cmd_ret
       IN loc' = [loc EXCEPT
                    !.result = out,
                    !.errors = AppendCommandError(loc.errors, out),
                    !.ret = IF out.retcode = 0 /\ kw.parse_output
                            THEN parse_reported_packages_from_install_output(
                                     out.stdout, loc.ret)
                            ELSE loc.ret]
    /\ Finish([NoOutcome EXCEPT !.kind = "return"])

\* "proc.communicate(timeout=86400)" raises TimeoutExpired: the detached
\* child has not exited; it is neither killed nor waited for, and the
\* exception leaves _execute_install_command
DetachedTimeout ==
    /\ pc = "exec_cmd"
    /\ inv.active
    /\ inv.via = "detached"
    /\ inv.spawned
    /\ inv' = NoInvocation
    /\ outcome' = Raised("TimeoutExpired", "timed out after 86400 seconds", <<>>)
    /\ pc' = "done"
    /\ UNCHANGED <<installed, held, context, opname, kw, loc, cmd_ret, log, pre, dry,
                   running, b, proc, mon, clock>>

(***************************************************************************)
(* _process_with_progress and its child.  The child writes the lines of    *)
(* its script to the pipe, one after the other, and exits.  proc.stdout is *)
(* a buffered reader on the pipe: a readline that finds the buffer empty   *)
(* takes what the pipe holds (the output is shorter than a chunk of the    *)
(* reader) into the buffer and returns the first line of it, a readline    *)
(* that finds a line in the buffer returns it.  select                     *)
(* and proc.communicate() look at the pipe (the file descriptor), not at   *)
(* the buffer.  Time is counted in ticks of the clock; time.time() is       *)
(* greater than the period when the monitor starts.                        *)
(***************************************************************************)
ScriptLines ==
    {<<"Installing", "vim", "(", "1", ")", "on", "root">>,
     <<"Installing", "ni-sysmgmt-salt-minion-support", "(", "1", ")", "on", "root">>,
     <<"Downloading", "http://feed/", "vim", "_", "1", "_all.ipk.">>,
     <<"Configuring", "vim.">>}

Counted == {"install", "upgrade", "remove", "downgrade"}

\* __opts__.get('pkg_progress_period', 60), in ticks
Periods == {1}

\* a variant that would take the package of a line whatever its third token
get_package_from_any_output_line(operation, line) ==
    IF operation = "download" /\ Last(line) = "_all.ipk."
    THEN line[3]
    ELSE IF operation \in Counted /\ Len(line) >= 2
         THEN line[2]
         ELSE None

\* _get_package_from_output_line; a download line is written
\* <<"Downloading", directory, package, "_", version, "_<arch>.ipk.">>
get_package_from_output_line(operation, line) ==
    IF operation = "download" /\ Last(line) = "_all.ipk."
    THEN line[3]
    ELSE IF operation \in Counted /\ Len(line) >= 3 /\ line[3] = "("
         THEN line[2]
         ELSE None

\* _get_operation_and_package_from_output_line
get_operation_and_package_from_output_line(line) ==
    LET operation == get_operation_from_output_line(line, TRUE)
    IN [operation |-> operation,
        package |-> get_package_from_output_line(operation, line)]

NoProc ==
    [spawned |-> FALSE, script |-> <<>>, written |-> 0, pipe |-> <<>>,
     buffer |-> <<>>, exited |-> FALSE, returncode |-> 0, reaped |-> FALSE]

NoMon ==
    [pc |-> "idle", total_packages_count |-> 0, notify_progress_period |-> 1,
     stdout |-> <<>>, last_notify_timestamp |-> 0, processed_count |-> 0,
     force_update |-> TRUE, last_sent_package |-> None, current_package |-> None,
     operation |-> None, counted |-> FALSE, events |-> <<>>, pending |-> 0,
     raised |-> FALSE, ret |-> NoneResult]

MonIdle ==
    /\ proc = NoProc
    /\ mon = NoMon
    /\ clock = 0

OtherThanMonitor ==
    <<installed, held, context, pc, opname, kw, loc, inv, cmd_ret, log,
      outcome, pre, dry, running, b>>

\* the child writes its next line
ChildWrite ==
    /\ proc.spawned
    /\ ~proc.exited
    /\ proc.written < Len(proc.script)
    /\ proc' = [proc EXCEPT !.written = proc.written + 1,
                            !.pipe = Append(proc.pipe, proc.script[proc.written + 1])]
    /\ UNCHANGED <<mon, clock>>
    /\ UNCHANGED OtherThanMonitor

\* the child has written everything and exits with some code; its end of the
\* pipe is closed
ChildExit ==
    /\ proc.spawned
    /\ ~proc.exited
    /\ proc.written = Len(proc.script)
    /\ \E code \in {0, 1} :
          proc' = [proc EXCEPT !.exited = TRUE, !.returncode = code]
    /\ UNCHANGED <<mon, clock>>
    /\ UNCHANGED OtherThanMonitor

\* time passes; the monitor looks at the time only in "timestamp = time.time()"
Tick ==
    /\ mon.pc = "emit"
    /\ clock < mon.notify_progress_period + 1 + MaxTicks
    /\ clock' = clock + 1
    /\ UNCHANGED <<proc, mon>>
    /\ UNCHANGED OtherThanMonitor

\* subprocess.Popen(cmd, ...), before the try
MonPopen ==
    /\ mon.pc = "start"
    /\ proc' = [proc EXCEPT !.spawned = TRUE]
    /\ mon' = [mon EXCEPT !.pc = "fcntl"]
    /\ UNCHANGED clock
    /\ UNCHANGED OtherThanMonitor

\* the pipe is made non-blocking
MonNonBlocking ==
    /\ mon.pc = "fcntl"
    /\ mon' = [mon EXCEPT !.pc = "poll"]
    /\ UNCHANGED <<proc, clock>>
    /\ UNCHANGED OtherThanMonitor

\* "while proc.poll() is None": poll reaps a child that has exited
MonPoll ==
    /\ mon.pc = "poll"
    /\ IF proc.exited
       THEN /\ proc' = [proc EXCEPT !.reaped = TRUE]
            /\ mon' = [mon EXCEPT !.pc = "communicate"]
       ELSE /\ mon' = [mon EXCEPT !.pc = "select"]
            /\ UNCHANGED proc
    /\ UNCHANGED clock
    /\ UNCHANGED OtherThanMonitor

\* select.select([stdout_fileno], [], []) has no timeout: it returns when the
\* pipe holds data or is at end of file, and then with the descriptor
MonSelect ==
    /\ mon.pc = "select"
    /\ proc.pipe # <<>> \/ proc.exited
    /\ mon' = [mon EXCEPT !.pc = "readline"]
    /\ UNCHANGED <<proc, clock>>
    /\ UNCHANGED OtherThanMonitor

\* the locals after "stdout += output" and the parse of the line; output is
\* <<>> for '' and <<line>> for a line
process_output(mo, output) ==
    IF output = <<>> THEN [mo EXCEPT !.counted = FALSE]
    ELSE LET parsed == get_operation_and_package_from_output_line(output[1])
             matched == parsed.operation # None /\ parsed.package # None
             counts == matched /\ parsed.operation \in Counted
             count == IF counts THEN mo.processed_count + 1 ELSE mo.processed_count
         IN [mo EXCEPT
                !.stdout = mo.stdout \o output,
                !.operation = IF matched THEN parsed.operation ELSE mo.operation,
                !.current_package = IF matched THEN parsed.package
                                    ELSE mo.current_package,
                !.processed_count = count,
                !.counted = counts,
                !.force_update = IF counts
                                 THEN mo.force_update
                                      \/ count \in {1, mo.total_packages_count}
                                 ELSE mo.force_update]

\* proc.stdout.readline() and the processing of the line
MonReadline ==
    /\ mon.pc = "readline"
    /\ \/ /\ proc.buffer # <<>>
          /\ proc' = [proc EXCEPT !.buffer = Tail(proc.buffer)]
          /\ mon' = [process_output(mon, <<Head(proc.buffer)>>) EXCEPT !.pc = "emit"]
       \/ /\ proc.buffer = <<>>
          /\ proc.pipe # <<>>
          /\ proc' = [proc EXCEPT !.buffer = Tail(proc.pipe), !.pipe = <<>>]
          /\ mon' = [process_output(mon, <<Head(proc.pipe)>>) EXCEPT !.pc = "emit"]
       \/ /\ proc.buffer = <<>>
          /\ proc.pipe = <<>>
          /\ proc.exited
          /\ mon' = [process_output(mon, <<>>) EXCEPT !.pc = "emit"]
          /\ UNCHANGED proc
    /\ UNCHANGED clock
    /\ UNCHANGED OtherThanMonitor

\* a variant that would notify whatever the package of the last event is
should_notify_any_package(timestamp, mo) ==
    \/ timestamp - mo.last_notify_timestamp > mo.notify_progress_period
    \/ mo.force_update

\* a variant that would notify on the period alone
should_notify_on_period(timestamp, mo) ==
    /\ timestamp - mo.last_notify_timestamp > mo.notify_progress_period
    /\ mo.last_sent_package # mo.current_package

\* "if (timestamp - last_notify_timestamp > notify_progress_period or
\* force_update) and last_sent_package != current_package"
should_notify(timestamp, mo) ==
    /\ \/ timestamp - mo.last_notify_timestamp > mo.notify_progress_period
       \/ mo.force_update
    /\ mo.last_sent_package # mo.current_package

\* a variant that would wait for room in the channel
send_ready_when_room(pending) == pending < ChannelCapacity

\* event.fire_master(data, tag) is a send that does not wait for the observer:
\* it is ready whatever the channel holds
send_ready(pending) == TRUE

\* an event that finds the channel full is not kept
pending_after_send(pending) ==
    IF pending < ChannelCapacity THEN pending + 1 ELSE pending

\* the observer takes an event from the channel
ObserverConsume ==
    /\ mon.pending > 0
    /\ mon' = [mon EXCEPT !.pending = mon.pending - 1]
    /\ UNCHANGED <<proc, clock>>
    /\ UNCHANGED OtherThanMonitor

\* timestamp = time.time() and the notification
MonEmit ==
    /\ mon.pc = "emit"
    /\ IF should_notify(clock, mon)
       THEN /\ send_ready(mon.pending)
            /\ mon' = [mon EXCEPT
                       !.pc = "poll",
                       !.pending = pending_after_send(mon.pending),
                       !.force_update = FALSE,
                       !.last_sent_package = mon.current_package,
                       !.last_notify_timestamp = clock,
                       !.events = Append(mon.events,
                                         [operation |-> mon.operation,
                                          package |-> mon.current_package,
                                          count |-> mon.processed_count,
                                          total_count |-> mon.total_packages_count])]
       ELSE mon' = [mon EXCEPT !.pc = "poll"]
    /\ UNCHANGED <<proc, clock>>
    /\ UNCHANGED OtherThanMonitor

\* a variant that would let the exception leave _process_with_progress
after_exception_propagates(at) == "raised"

\* "except Exception as exc": the warning is logged and proc.communicate()
\* is next
after_exception(at) == "communicate"

\* a call of the try block raises
MonRaise ==
    /\ mon.pc \in {"fcntl", "poll", "select", "readline", "emit"}
    /\ mon' = [mon EXCEPT !.pc = after_exception(mon.pc), !.raised = TRUE]
    /\ UNCHANGED <<proc, clock>>
    /\ UNCHANGED OtherThanMonitor

\* proc.communicate() waits for the child, reads what the pipe still holds
\* and the dictionary is returned
MonCommunicate ==
    /\ mon.pc = "communicate"
    /\ proc.exited
    /\ proc' = [proc EXCEPT !.pipe = <<>>, !.reaped = TRUE]
    /\ mon' = [mon EXCEPT
                  !.pc = "done",
                  !.ret = [retcode |-> proc.returncode,
                           stdout |-> mon.stdout \o proc.pipe,
                           stderr |-> <<>>]]
    /\ UNCHANGED clock
    /\ UNCHANGED OtherThanMonitor

(***************************************************************************)
(* Specifications.                                                         *)
(***************************************************************************)
Idle ==
    /\ context = <<>>
    /\ pc = "idle"
    /\ opname = ""
    /\ kw = NoKw
    /\ loc = NoLoc
    /\ inv = NoInvocation
    /\ cmd_ret = NoneResult
    /\ log = <<>>
    /\ outcome = NoOutcome
    /\ pre = [installed |-> installed, held |-> held]
    /\ dry = NoDry
    /\ running = 0

Init ==
    /\ installed \in Snapshots
    /\ held = {}
    /\ Idle
    /\ b = NoBuild
    /\ MonIdle

Next ==
    \/ CallOpkgAttempt
    \/ Spawn
    \/ RunOnce
    \/ InstallStart
    \/ InstallPlan
    \/ InstallRefreshed
    \/ InstallCommands
    \/ InstallFinish
    \/ RemoveStart
    \/ PurgeStart
    \/ RemovePlan
    \/ RemoveCounted
    \/ RemoveExecuted
    \/ RemoveFinish
    \/ UpgradeStart
    \/ UpgradeRefreshed
    \/ UpgradeSnapshot
    \/ UpgradeExecuted
    \/ UpgradeFinish
    \/ Reset
    \/ ForgetDryRun

\* install, remove, purge and upgrade, called one after the other
Spec == Init /\ [][Next]_vars

NextHold ==
    \/ RunOnce
    \/ HoldStart
    \/ HoldQueried
    \/ HoldSetQueried
    \/ HoldFlagged
    \/ Reset

\* hold and unhold, called one after the other
SpecHold == Init /\ [][NextHold]_vars

NextCmp ==
    \/ RunOnce
    \/ CmpStart
    \/ CmpVersioned
    \/ CmpProbed
    \/ Reset

InitCmp ==
    /\ installed = EmptySnapshot
    /\ held = {}
    /\ Idle
    /\ b = NoBuild
    /\ MonIdle

\* version_cmp, called on pairs of versions one after the other
SpecCmp == InitCmp /\ [][NextCmp]_vars

NextExec ==
    \/ CallOpkgAttempt
    \/ Spawn
    \/ RunOnce
    \/ ExecStart
    \/ ExecCounted
    \/ ExecFinish
    \/ Reset

\* _execute_install_command, called again and again
SpecExec == Init /\ [][NextExec]_vars

NextOps ==
    \/ Next
    \/ ExecStart
    \/ ExecCounted
    \/ ExecFinish

\* the operations and _execute_install_command
SpecOps == Init /\ [][NextOps]_vars

InitBuild ==
    /\ installed = EmptySnapshot
    /\ held = {}
    /\ Idle
    /\ \E p \in BuildPrefixes :
       \E ti \in SeqsUpTo(BuildTargets, MaxTargets) :
       \E td \in SeqsUpTo(BuildTargets, MaxTargets) :
       \E tr \in SeqsUpTo(BuildTargets, MaxTargets) :
          b = [NoBuild EXCEPT !.cmd_prefix = p, !.to_install = ti,
                              !.to_downgrade = td, !.to_reinstall = tr]
    /\ MonIdle

SpecBuild == InitBuild /\ [][Build]_vars

(***************************************************************************)
(* The comparison of two snapshots, for every pair of snapshots: loc.old   *)
(* is the old one, installed the new one.                                  *)
(***************************************************************************)
InitDiff ==
    /\ installed \in Snapshots
    /\ held = {}
    /\ context = <<>>
    /\ pc = "idle"
    /\ opname = "compare_dicts"
    /\ kw = NoKw
    /\ \E old \in Snapshots : loc = [NoLoc EXCEPT !.old = old]
    /\ inv = NoInvocation
    /\ cmd_ret = NoneResult
    /\ log = <<>>
    /\ outcome = NoOutcome
    /\ pre = [installed |-> installed, held |-> held]
    /\ dry = NoDry
    /\ running = 0
    /\ b = NoBuild
    /\ MonIdle

\* ret = salt.utils.data.compare_dicts(old, new)
Diff ==
    /\ pc = "idle"
    /\ opname = "compare_dicts"
    /\ outcome' = Returned(compare_dicts(loc.old, installed), FALSE)
    /\ pc' = "done"
    /\ UNCHANGED <<installed, held, context, opname, kw, loc, inv, cmd_ret, log, pre, dry,
                   running, b, proc, mon, clock>>

SpecDiff == InitDiff /\ [][Diff]_vars

(***************************************************************************)
(* _get_version_info.  A string is a sequence of characters; a letter is   *)
(* written "a".  re.search takes the leftmost position at which the        *)
(* pattern matches and, there, the first alternative of the operator group *)
(* after which the rest of the pattern matches.                            *)
(***************************************************************************)
\* (<=>|!=|>=|<=|>>|<<|<>|>|<|=), in the order of the pattern
OperatorAlternatives ==
    << <<"<", "=", ">">>, <<"!", "=">>, <<">", "=">>, <<"<", "=">>, <<">", ">">>,
       <<"<", "<">>, <<"<", ">">>, <<">">>, <<"<">>, <<"=">> >>

DigitChars == {"0", "1", "2", "3", "4", "5", "6", "7", "8", "9"}

\* [a-zA-Z0-9+~.-]
VersionChars == DigitChars \cup {"a", "+", "~", ".", "-"}

\* the end of the longest run of characters of class that starts at j (j - 1
\* when s[j] is not in class)
RECURSIVE RunEnd(_, _, _)
RunEnd(s, j, class) ==
    IF j <= Len(s) /\ s[j] \in class THEN RunEnd(s, j + 1, class) ELSE j - 1

\* ((?:[0-9]+:)?[0-9][a-zA-Z0-9+~.-]*) at j: the end of the match, 0 for none
VersionEnd(s, j) ==
    LET d == RunEnd(s, j, DigitChars)
    IN IF d >= j /\ d + 2 <= Len(s) /\ s[d + 1] = ":" /\ s[d + 2] \in DigitChars
       THEN RunEnd(s, d + 3, VersionChars)
       ELSE IF j <= Len(s) /\ s[j] \in DigitChars
       THEN RunEnd(s, j + 1, VersionChars)
       ELSE 0

\* a variant of the pattern without the white space
VersionStartWithoutBlank(s, i, k) == i + Len(OperatorAlternatives[k])

\* where the version starts when alternative k matches at i: after the
\* operator and at most one white space
VersionStart(s, i, k) ==
    LET j == i + Len(OperatorAlternatives[k])
    IN IF j <= Len(s) /\ s[j] = " " THEN j + 1 ELSE j

MatchesAt(s, i, k) ==
    LET op == OperatorAlternatives[k]
    IN /\ i + Len(op) - 1 <= Len(s)
       /\ SubSeq(s, i, i + Len(op) - 1) = op
       /\ VersionEnd(s, VersionStart(s, i, k)) # 0

get_version_info(version_string) ==
    LET Found == {m \in (1..Len(version_string)) \X (1..Len(OperatorAlternatives)) :
                     MatchesAt(version_string, m[1], m[2])}
    IN IF Found = {}
       THEN [versionString |-> version_string, operatorString |-> <<>>,
             operatorSpecified |-> FALSE]
       ELSE LET i == CHOOSE i \in 1..Len(version_string) :
                        /\ \E m \in Found : m[1] = i
                        /\ \A m \in Found : m[1] >= i
                k == CHOOSE k \in 1..Len(OperatorAlternatives) :
                        /\ <<i, k>> \in Found
                        /\ \A m \in Found : m[1] = i => m[2] >= k
                j == VersionStart(version_string, i, k)
            IN [versionString |-> SubSeq(version_string, j, VersionEnd(version_string, j)),
                operatorString |-> OperatorAlternatives[k],
                operatorSpecified |-> TRUE]

\* the strings given to the parser: an operator (or none, or two characters
\* that are no operator), then no, one or two blanks, then a version token
\* or a word
ConstraintParts ==
    LET Opers == {OperatorAlternatives[k] : k \in 1..Len(OperatorAlternatives)}
                    \cup {<<>>, <<"=", ">">>, <<"=", "=">>}
        Blanks == {<<>>, <<" ">>, <<" ", " ">>}
        Tokens == {<<ToString(v)>> : v \in Versions}
                     \cup {<<"1", ".", ToString(v), "-", "a">> : v \in Versions}
                     \cup {<<"1", ":", ToString(v), "~", "a">> : v \in Versions}
                     \cup {<<"a", "1">>}
    IN {<<o, w, t>> : o \in Opers, w \in Blanks, t \in Tokens}

InitParse ==
    /\ installed = EmptySnapshot
    /\ held = {}
    /\ context = <<>>
    /\ pc = "idle"
    /\ opname = "_get_version_info"
    /\ kw = NoKw
    /\ \E parts \in ConstraintParts : loc = [NoLoc EXCEPT !.cmd = parts]
    /\ inv = NoInvocation
    /\ cmd_ret = NoneResult
    /\ log = <<>>
    /\ outcome = NoOutcome
    /\ pre = [installed |-> installed, held |-> held]
    /\ dry = NoDry
    /\ running = 0
    /\ b = NoBuild
    /\ MonIdle

\* (version_string, version_operator, operator_specified) = _get_version_info(...)
Parse ==
    /\ pc = "idle"
    /\ opname = "_get_version_info"
    /\ loc' = [loc EXCEPT !.ret = get_version_info(loc.cmd[1] \o loc.cmd[2] \o loc.cmd[3])]
    /\ pc' = "done"
    /\ UNCHANGED <<installed, held, context, opname, kw, inv, cmd_ret, log, outcome, pre,
                   dry, running, b, proc, mon, clock>>

SpecParse == InitParse /\ [][Parse]_vars

(***************************************************************************)
(* The classifier of output lines applied to lines of every shape: a       *)
(* first word, then nothing, a package, a package and its version between  *)
(* parentheses, a narrative, an upgrade "from .. to ..", or a URL.         *)
(***************************************************************************)
ClassifierLines ==
    LET Tails == {<<>>, <<"any", "package", "that", "needs", "it">>,
                  <<"http://feed/Packages.gz.">>}
                 \cup {<<p>> : p \in Pkgs}
                 \cup {<<p, "(", ToString(v), ")", "on", "root">> : p \in Pkgs, v \in Versions}
                 \cup {<<p, "from", ToString(v), "to", ToString(v + 1), "on", "root">> :
                          p \in Pkgs, v \in Versions}
                 \cup {<<"http://feed/", p, "_", ToString(v), "_all.ipk.">> :
                          p \in Pkgs, v \in Versions}
    IN {<<>>} \cup {<<w>> \o t : w \in {"Installing", "Upgrading", "Removing", "Downgrading",
                                        "Downloading", "Configuring"}, t \in Tails}

InitClassify ==
    /\ installed = EmptySnapshot
    /\ held = {}
    /\ context = <<>>
    /\ pc = "idle"
    /\ opname = "classify"
    /\ kw = NoKw
    /\ \E line \in ClassifierLines : loc = [NoLoc EXCEPT !.cmd = line]
    /\ inv = NoInvocation
    /\ cmd_ret = NoneResult
    /\ log = <<>>
    /\ outcome = NoOutcome
    /\ pre = [installed |-> installed, held |-> held]
    /\ dry = NoDry
    /\ running = 0
    /\ b = NoBuild
    /\ MonIdle

\* operation, current_package = _get_operation_and_package_from_output_line(line)
Classify ==
    /\ pc = "idle"
    /\ opname = "classify"
    /\ loc' = [loc EXCEPT !.ret = get_operation_and_package_from_output_line(loc.cmd)]
    /\ pc' = "done"
    /\ UNCHANGED <<installed, held, context, opname, kw, inv, cmd_ret, log, outcome, pre,
                   dry, running, b, proc, mon, clock>>

SpecClassify == InitClassify /\ [][Classify]_vars

(***************************************************************************)
(* install's plan as a function of the request and of the old snapshot.    *)
(* A version given as a comma-separated list has one condition per item;   *)
(* the lists of several conditions drawn here carry an operator in every   *)
(* item, so that each target is built from its own condition (an item      *)
(* without operator is formatted and compared with the whole list).        *)
(***************************************************************************)
ListedRequests ==
    LET OperatorConds == {[oper |-> o, ver |-> v] : o \in {">=", "<="}, v \in Versions}
        ListedConds == Conds \cup {<<c1, c2>> : c1 \in OperatorConds, c2 \in OperatorConds}
    IN {<<[name |-> p, conds |-> c]>> : p \in Pkgs, c \in ListedConds}
        \cup {<<[name |-> "vim", conds |-> c1],
                [name |-> "ni-sysmgmt-salt-minion-support", conds |-> c2]>> :
                    c1 \in ListedConds, c2 \in ListedConds}

InitPlan ==
    /\ installed \in Snapshots
    /\ held = {}
    /\ context = <<>>
    /\ pc = "idle"
    /\ opname = "install"
    /\ \E r \in ListedRequests : \E reinstall \in BOOLEAN : \E only_upgrade \in BOOLEAN :
          kw = [NoKw EXCEPT !.pkg_params = r, !.reinstall = reinstall,
                            !.only_upgrade = only_upgrade]
    /\ loc = NoLoc
    /\ inv = NoInvocation
    /\ cmd_ret = NoneResult
    /\ log = <<>>
    /\ outcome = NoOutcome
    /\ pre = [installed |-> installed, held |-> held]
    /\ dry = NoDry
    /\ running = 0
    /\ b = NoBuild
    /\ MonIdle

\* install, from the bucket lists to the two command lists
PlanInstall ==
    /\ pc = "idle"
    /\ opname = "install"
    /\ LET plan == install_plan(kw, installed)
       IN loc' = [loc EXCEPT !.old = installed, !.buckets = plan.buckets,
                             !.cmds = plan.cmds, !.detached_cmds = plan.detached_cmds]
    /\ pc' = "planned"
    /\ UNCHANGED <<installed, held, context, opname, kw, inv, cmd_ret, log, outcome,
                   pre, dry, running, b, proc, mon, clock>>

\* install after its commands have run and succeeded: the new snapshot, the
\* comparison and the update for the reinstalled packages
PlanExecuted ==
    /\ pc = "planned"
    /\ opname = "install"
    /\ IF loc.cmds = <<>> /\ loc.detached_cmds = <<>>
       THEN /\ installed' = installed
            /\ outcome' = Returned(<<>>, FALSE)
       ELSE \E new \in {s \in Snapshots :
                          /\ DOMAIN s = DOMAIN installed
                                \cup {kw.pkg_params[i].name : i \in 1..Len(kw.pkg_params)}
                          /\ \A p \in DOMAIN installed :
                                p \notin {kw.pkg_params[i].name : i \in 1..Len(kw.pkg_params)}
                                    => s[p] = installed[p]} :
              /\ installed' = new
              /\ outcome' = Returned(ReinstallUpdate(compare_dicts(loc.old, new),
                                                     loc.buckets.to_reinstall, loc.old, new),
                                     FALSE)
    /\ pc' = "done"
    /\ UNCHANGED <<held, context, opname, kw, loc, inv, cmd_ret, log, pre, dry, running,
                   b, proc, mon, clock>>

SpecPlan == InitPlan /\ [][PlanInstall \/ PlanExecuted]_vars

InitMonitor ==
    /\ installed = EmptySnapshot
    /\ held = {}
    /\ Idle
    /\ b = NoBuild
    /\ \E script \in SeqsUpTo(ScriptLines, MaxLines) :
          proc = [NoProc EXCEPT !.script = script]
    /\ \E total \in -1..MaxLines :
       \E period \in Periods :
          mon = [NoMon EXCEPT !.pc = "start", !.total_packages_count = total,
                              !.notify_progress_period = period]
    /\ clock = mon.notify_progress_period + 1

NextMonitor ==
    \/ ChildWrite
    \/ ChildExit
    \/ Tick
    \/ MonPopen
    \/ MonNonBlocking
    \/ MonPoll
    \/ MonSelect
    \/ MonReadline
    \/ MonEmit
    \/ MonRaise
    \/ MonCommunicate

\* _process_with_progress, called once with a child that runs its script
SpecMonitor == InitMonitor /\ [][NextMonitor]_vars

NextObserved ==
    \/ ChildWrite
    \/ ChildExit
    \/ MonPopen
    \/ MonNonBlocking
    \/ MonPoll
    \/ MonSelect
    \/ MonReadline
    \/ MonEmit
    \/ MonCommunicate
    \/ ObserverConsume

\* _process_with_progress and an observer that takes the events when it likes
SpecObserved == InitMonitor /\ [][NextObserved]_vars

(***************************************************************************)
(* Properties.                                                             *)
(***************************************************************************)
\* what _call_opkg saw of its k-th execution of the tool
Seen(k) == run_all(inv.runs[k], inv.redirect)

CallOpkgReturned == inv.via = "_call_opkg" /\ ~inv.active /\ inv.runs # <<>>

AllSeenLocked == \A k \in 1..Len(inv.runs) : HasLockMarker(Seen(k).stderr)

\* C1: when the stderr of every attempt of a _call_opkg invocation holds the
\* lock marker, the tool is executed exactly 5 times, never more, and the
\* result of the fifth execution is what _call_opkg returns.
C1_FiveAttemptsUnderLock ==
    (inv.via = "_call_opkg" /\ inv.runs # <<>> /\ AllSeenLocked) =>
        /\ Len(inv.runs) <= 5
        /\ inv.active => Len(inv.runs) < 5
        /\ ~inv.active => Len(inv.runs) = 5 /\ cmd_ret = Seen(5)

C1_Witness ==
    /\ CallOpkgReturned
    /\ AllSeenLocked
    /\ Len(inv.runs) = 5
    /\ cmd_ret.retcode # 0

\* C2: an attempt of _call_opkg is followed by another one only if its stderr
\* holds the lock marker; the first attempt whose stderr lacks the marker is
\* returned as it is, whatever its exit code.  The number of attempts is
\* bounded and what is returned is always a result of the tool, never nothing.
C2_RetryOnlyOnLockMarker ==
    inv.via = "_call_opkg" =>
        /\ \A k \in 1..(Len(inv.runs) - 1) : HasLockMarker(Seen(k).stderr)
        /\ (inv.active /\ inv.runs # <<>>) =>
               HasLockMarker(Seen(Len(inv.runs)).stderr)
        /\ Len(inv.runs) <= Attempts
        /\ inv.active => Len(inv.runs) < Attempts
        /\ CallOpkgReturned =>
               /\ cmd_ret = Seen(Len(inv.runs))
               /\ cmd_ret # NoneResult

C2_Witness ==
    /\ CallOpkgReturned
    /\ Len(inv.runs) >= 2
    /\ ~HasLockMarker(cmd_ret.stderr)
    /\ cmd_ret.retcode # 0

InvocationFinished == ~inv.active /\ inv.runs # <<>>

\* C3, as the specification states it: whatever command is invoked (snapshot,
\* index refresh, install, remove, upgrade, plain or progress-monitored), an
\* invocation in which the tool reports lock contention is attempted again,
\* so that one that ends on a lock report has been attempted 5 times.
C3_EveryInvocationRetried ==
    (InvocationFinished /\ HasLockMarker(Last(inv.runs).stderr)) =>
        Len(inv.runs) = Attempts

\* C3, corrected: an invocation made through _call_opkg is attempted again
\* whenever the stderr it sees holds the lock marker, so that one that returns
\* a result with the marker has been attempted 5 times; the progress-monitored
\* command, started with subprocess.Popen, is executed exactly once.
C3_RetryOnlyThroughCallOpkg ==
    /\ (inv.via = "_call_opkg" /\ inv.active /\ inv.runs # <<>>) =>
           HasLockMarker(Seen(Len(inv.runs)).stderr)
    /\ InvocationFinished =>
           IF inv.via = "_call_opkg"
           THEN HasLockMarker(cmd_ret.stderr) => Len(inv.runs) = Attempts
           ELSE Len(inv.runs) = 1

C3_Witness ==
    /\ InvocationFinished
    /\ inv.via = "Popen"
    /\ HasLockMarker(Last(inv.runs).stderr)
    /\ Len(inv.runs) = 1

BuildFlag(kind) ==
    CASE kind = "install" -> <<>>
      [] kind = "downgrade" -> <<"--force-downgrade">>
      [] kind = "reinstall" -> <<"--force-reinstall">>

BuildBucket(kind) ==
    CASE kind = "install" -> b.to_install
      [] kind = "downgrade" -> b.to_downgrade
      [] kind = "reinstall" -> b.to_reinstall

BuildKinds ==
    SelectSeq(<<"install", "downgrade", "reinstall">>,
              LAMBDA kind : BuildBucket(kind) # <<>>)

\* C4: _build_install_command_list gives at most three commands, one for each
\* non-empty bucket, in the order install, downgrade, reinstall; each command
\* is the caller's prefix, then the flag of its own bucket only (none,
\* --force-downgrade, --force-reinstall), then the targets of the bucket; an
\* empty bucket gives no command and the caller's prefix is left as it was.
C4_BuildInstallCommandList ==
    b.done =>
        /\ Len(b.cmds) <= 3
        /\ Len(b.cmds) = Len(BuildKinds)
        /\ \A i \in 1..Len(b.cmds) :
              i <= Len(BuildKinds) =>
                  b.cmds[i] = b.cmd_prefix \o BuildFlag(BuildKinds[i])
                                           \o BuildBucket(BuildKinds[i])
        /\ b.prefix_after = b.cmd_prefix

C4_Witness ==
    /\ b.done
    /\ Len(b.cmds) = 3
    /\ b.to_install # b.to_downgrade
    /\ b.to_downgrade # b.to_reinstall

InstallDone == pc = "done" /\ opname = "install"

CommandEntries == {j \in 1..Len(log) : log[j].site = "command"}

\* C5: install executes every command of its plan, also after one of them has
\* failed; when at least one failed the operation fails, after the
\* post-snapshot, with the error texts of the failed commands and the changes.
C5_EveryPlanCommandExecuted ==
    (InstallDone /\ loc.cmds # <<>>) =>
        /\ \A i \in 1..Len(loc.cmds) :
              \E j \in CommandEntries : log[j].cmd = loc.cmds[i]
        /\ (\E j \in CommandEntries : log[j].retcode # 0) =>
              /\ outcome.kind = "raise"
              /\ outcome.exc = "CommandExecutionError"
              /\ outcome.errors # <<>>
              /\ outcome.has_changes

OperationDone == pc = "done" /\ opname \in {"install", "remove", "purge", "upgrade"}

\* C6, as the specification states it: install, remove and upgrade return
\* normally only if every tool invocation the operation made, the index refresh
\* when requested and every command of the plan, exited zero.
C6_NoHiddenFailure ==
    (OperationDone /\ outcome.kind = "return") =>
        \A j \in 1..Len(log) :
            log[j].site \in {"refresh", "command"} => log[j].retcode = 0

\* C6, corrected: an operation returns normally only if every install, remove
\* or upgrade command it ran exited zero; a failed index refresh alone does not
\* keep it from returning normally.
C6_NoHiddenCommandFailure ==
    (OperationDone /\ outcome.kind = "return") =>
        \A j \in CommandEntries : log[j].retcode = 0

C6_Witness ==
    /\ OperationDone
    /\ outcome.kind = "return"
    /\ \E j \in 1..Len(log) : log[j].site = "refresh" /\ log[j].retcode # 0
    /\ \E j \in CommandEntries : log[j].retcode = 0

PreSnapshotFailed ==
    \E j \in 1..Len(log) : log[j].site = "pre_snapshot" /\ log[j].retcode # 0

Invoked(subs) == \E j \in 1..Len(log) : SubCommand(log[j].cmd) \in subs

\* C7, as the specification states it: when the pre-operation snapshot of
\* install or upgrade fails, the operation fails and no install, upgrade or
\* index-refresh command is invoked in it; the installed state is unchanged.
C7_NothingInvokedAfterFailedPreSnapshot ==
    (pc = "done" /\ opname \in {"install", "upgrade"} /\ PreSnapshotFailed) =>
        /\ outcome.kind = "raise"
        /\ ~Invoked({"install", "upgrade", "update"})
        /\ installed = pre.installed

\* C7, corrected: when the pre-operation snapshot of install or upgrade fails,
\* the operation fails with "Problem encountered before ..." and no install or
\* upgrade command is invoked in it, so that the installed state is unchanged;
\* install has not refreshed the index either, whereas upgrade, which refreshes
\* before it takes the snapshot, may have.
C7_NoMutationAfterFailedPreSnapshot ==
    (pc = "done" /\ opname \in {"install", "upgrade"} /\ PreSnapshotFailed) =>
        /\ outcome.kind = "raise"
        /\ outcome.msg = (IF opname = "install"
                          THEN "Problem encountered before installing package(s)"
                          ELSE "Problem encountered before upgrading package(s)")
        /\ ~Invoked({"install", "upgrade"})
        /\ opname = "install" => ~Invoked({"update"})
        /\ installed = pre.installed

C7_Witness ==
    /\ pc = "done"
    /\ opname = "upgrade"
    /\ PreSnapshotFailed
    /\ Invoked({"update"})
    /\ outcome.kind = "raise"

PostSnapshotFailed ==
    \E j \in 1..Len(log) : log[j].site = "post_snapshot" /\ log[j].retcode # 0

\* C8: when every mutating command of install or upgrade succeeded and the
\* post-operation snapshot cannot be taken, the operation fails with the
\* error "Problem encountered after successfully installing (upgrading)
\* package(s). Cannot provide changes list." and gives no changes.
C8_DistinctErrorAfterSuccess ==
    (/\ pc = "done"
     /\ opname \in {"install", "upgrade"}
     /\ PostSnapshotFailed
     /\ \A j \in CommandEntries : log[j].retcode = 0) =>
        /\ outcome.kind = "raise"
        /\ outcome.msg = (IF opname = "install"
                          THEN "Problem encountered after successfully installing package(s). Cannot provide changes list."
                          ELSE "Problem encountered after successfully upgrading package(s). Cannot provide changes list.")
        /\ ~outcome.has_changes

\* C9: in an operation called with the dry-run flag every command that would
\* change the system carries --noaction and the installed and held state at
\* the end is the state at the start.
C9_DryRunChangesNothing ==
    (pc = "done" /\ is_testmode(kw)) =>
        /\ \A j \in 1..Len(log) : Mutating(log[j].cmd) => HasNoAction(log[j].cmd)
        /\ installed = pre.installed
        /\ held = pre.held

\* C10: a dry-run install and the real install of the same request from the
\* same state, the real one applying what the dry run listed (here nothing, so
\* that the state is left as it was), both give a change set, with the same
\* keys.
C10_DryRunAndRealSameKeys ==
    (InstallDone /\ dry.set /\ ~is_testmode(kw) /\ loc.cmds # <<>>
        /\ installed = pre.installed) =>
        /\ dry.outcome.has_changes
        /\ outcome.has_changes
        /\ DOMAIN outcome.changes = DOMAIN dry.outcome.changes

RemoveDone == pc = "done" /\ opname = "remove"

\* the packages of the lines "Removing <pkg> (<ver>) from ..." the tool printed
\* in the j-th invocation of the operation
ReportedRemoved(j) ==
    {log[j].stdout[n][2] :
        n \in {m \in 1..Len(log[j].stdout) :
                  Len(log[j].stdout[m]) >= 2 /\ log[j].stdout[m][1] = "Removing"}}

RemovedChangeSet(R) ==
    [p \in R |-> [old |-> ToString(pre.installed[p]), new |-> ""]]

\* C11: a remove whose command succeeded gives as change set exactly the
\* packages the tool reported as "Removing <pkg> (<ver>) from ...", each with
\* its old version and an empty new one, in a dry run as in a real run (which
\* removes what it reports); the dry run issues the command with --noaction and
\* leaves the installed packages as they were.
C11_DryRunRemoveSameChangeSet ==
    \A j \in CommandEntries :
        (RemoveDone /\ outcome.has_changes /\ log[j].retcode = 0) =>
            /\ outcome.changes = RemovedChangeSet(ReportedRemoved(j))
            /\ is_testmode(kw) =>
                  /\ HasNoAction(log[j].cmd)
                  /\ installed = pre.installed
            /\ ~is_testmode(kw) =>
                  DOMAIN installed = (DOMAIN pre.installed) \ ReportedRemoved(j)

C11_Witness ==
    /\ RemoveDone
    /\ is_testmode(kw)
    /\ outcome.kind = "return"
    /\ Len(kw.names) = 1
    /\ Cardinality(DOMAIN outcome.changes) = 2
    /\ installed = pre.installed

PreSnapshotTaken ==
    \E j \in 1..Len(log) : log[j].site = "pre_snapshot" /\ log[j].retcode = 0

RequestedInstalled == SelectSeq(kw.names, LAMBDA x : x \in DOMAIN pre.installed)

RemoveInvocations == {j \in 1..Len(log) : SubCommand(log[j].cmd) = "remove"}

\* C12: remove drops the requested names that are not installed.  When none
\* is installed it issues no remove command, changes nothing, runs no restart
\* check and returns an empty change set; otherwise it issues exactly one
\* remove command (after, in monitored mode, the dry run of the same command
\* that counts the packages), whose targets are the installed requested names.
C12_RemoveTargetsAreInstalledNames ==
    (RemoveDone /\ PreSnapshotTaken) =>
        IF RequestedInstalled = <<>>
        THEN /\ RemoveInvocations = {}
             /\ installed = pre.installed
             /\ outcome.kind = "return"
             /\ DOMAIN outcome.changes = {}
             /\ outcome.restartcheck = "not run"
        ELSE /\ Cardinality(CommandEntries) = 1
             /\ \A j \in RemoveInvocations :
                   /\ TargetsOf(log[j].cmd) = RequestedInstalled
                   /\ log[j].site = "command" \/ HasNoAction(log[j].cmd)

C12_Witness ==
    /\ RemoveDone
    /\ Len(kw.names) = 2
    /\ Len(RequestedInstalled) = 1
    /\ \E j \in CommandEntries : log[j].retcode = 0
    /\ outcome.kind = "return"

C12_WitnessNoneInstalled ==
    /\ RemoveDone
    /\ PreSnapshotTaken
    /\ RequestedInstalled = <<>>
    /\ DOMAIN pre.installed # {}

UpgradeDone == pc = "done" /\ opname = "upgrade"

SitesInOrder(j, first, second) ==
    \E i \in 1..(j - 1) :
        /\ log[i].site = first
        /\ \E k \in (j + 1)..Len(log) : log[k].site = second

PostSnapshotTaken ==
    \E j \in 1..Len(log) : log[j].site = "post_snapshot" /\ log[j].retcode = 0

UpgradeCommandFailure(j) ==
    /\ outcome.kind = "raise"
    /\ outcome.msg = "Problem encountered upgrading packages"
    /\ Len(outcome.errors) = (IF outcome.restartcheck = "comment" THEN 2 ELSE 1)
    /\ outcome.errors[1].retcode = log[j].retcode
    /\ outcome.errors[1].stdout = log[j].stdout

\* C13, as the specification states it: upgrade runs "opkg upgrade" exactly
\* once, between the two snapshots; when it exits nonzero upgrade fails with
\* the command's result as an error and with the change set computed from the
\* two snapshots.
C13_UpgradeFailureCarriesChangeSet ==
    (UpgradeDone /\ PreSnapshotTaken) =>
        /\ Cardinality(CommandEntries) = 1
        /\ \A j \in CommandEntries :
              /\ log[j].cmd = <<"opkg", "upgrade">>
              /\ SitesInOrder(j, "pre_snapshot", "post_snapshot")
              /\ log[j].retcode # 0 =>
                    /\ UpgradeCommandFailure(j)
                    /\ outcome.has_changes
                    /\ outcome.changes = compare_dicts(pre.installed, installed)

\* C13, corrected: as above, and the failure carries the change set computed
\* from the two snapshots when the second snapshot could be taken; when it
\* could not, the failure carries no change set.
C13_UpgradeFailureCarriesChangeSetIfTaken ==
    (UpgradeDone /\ PreSnapshotTaken) =>
        /\ Cardinality(CommandEntries) = 1
        /\ \A j \in CommandEntries :
              /\ log[j].cmd = <<"opkg", "upgrade">>
              /\ SitesInOrder(j, "pre_snapshot", "post_snapshot")
              /\ log[j].retcode # 0 =>
                    /\ UpgradeCommandFailure(j)
                    /\ outcome.has_changes = PostSnapshotTaken
                    /\ PostSnapshotTaken =>
                          outcome.changes = compare_dicts(pre.installed, installed)

C13_Witness ==
    /\ UpgradeDone
    /\ \E j \in CommandEntries : log[j].retcode # 0
    /\ PostSnapshotFailed
    /\ outcome.kind = "raise"
    /\ ~outcome.has_changes

C13_WitnessWithChanges ==
    /\ UpgradeDone
    /\ \E j \in CommandEntries : log[j].retcode # 0
    /\ outcome.has_changes
    /\ DOMAIN outcome.changes # {}

InstallPlanned ==
    /\ InstallDone
    /\ loc.cmds # <<>> \/ loc.detached_cmds # <<>>
    /\ outcome.msg # "refresh_db"

BucketTargets ==
    Range(loc.buckets.to_install) \cup Range(loc.buckets.to_downgrade)
        \cup Range(loc.buckets.to_reinstall) \cup Range(loc.buckets.to_install_detached)

\* C14: when an install returns normally, every target of its detached bucket
\* (a versioned request for a package of PACKAGES_TO_INSTALL_DETACHED) has been
\* an argument of a command executed by the detached launcher.
C14_DetachedTargetsExecuted ==
    (InstallPlanned /\ outcome.kind = "return") =>
        \A t \in Range(loc.buckets.to_install_detached) :
            \E j \in CommandEntries :
                log[j].via = "detached" /\ t \in Range(log[j].cmd)

\* the general part: in an install that got as far as its plan, every target
\* of every bucket is an argument of a command executed in the operation
EveryBucketTargetExecuted ==
    InstallPlanned =>
        \A t \in BucketTargets :
            \E j \in CommandEntries : t \in Range(log[j].cmd)

ExecDone == pc = "done" /\ opname = "_execute_install_command"

PreCounted == \E j \in 1..Len(log) : log[j].site = "precount" /\ log[j].retcode = 0

OneCommandVia(via) ==
    /\ Cardinality(CommandEntries) = 1
    /\ \A j \in CommandEntries : log[j].via = via /\ log[j].cmd = loc.cmd

\* C15, as the specification states it: an install command is executed in
\* exactly one mode: by the progress monitor if live progress is enabled, also
\* when the command is flagged detached; else by the detached launcher if it is
\* flagged detached; else by the tool invoker.
C15_MonitorThenDetachedThenPlain ==
    ExecDone =>
        OneCommandVia(IF kw.notify THEN "Popen"
                      ELSE IF kw.should_process_in_detached_mode THEN "detached"
                      ELSE "_call_opkg")

\* C15, corrected: an install command is executed in exactly one mode: by the
\* tool invoker if the output is to be parsed (dry run); else by the detached
\* launcher if it is flagged detached; else, if live progress is enabled, by
\* the progress monitor when the counting dry run succeeded and by the tool
\* invoker when it failed; else by the tool invoker.
C15_DetachedThenMonitorThenPlain ==
    ExecDone =>
        /\ OneCommandVia(IF kw.parse_output THEN "_call_opkg"
                         ELSE IF kw.should_process_in_detached_mode THEN "detached"
                         ELSE IF kw.notify /\ PreCounted THEN "Popen"
                         ELSE "_call_opkg")
        /\ (\E j \in 1..Len(log) : log[j].site = "precount") <=>
              (kw.notify /\ ~kw.parse_output /\ ~kw.should_process_in_detached_mode)

C15_Witness ==
    /\ ExecDone
    /\ kw.notify
    /\ kw.should_process_in_detached_mode
    /\ ~kw.parse_output
    /\ OneCommandVia("detached")

\* a step in which an execution of the tool starts
ToolStarts ==
    \/ inv.via = "_call_opkg" /\ Len(inv'.runs) > Len(inv.runs)
    \/ inv'.spawned /\ ~inv.spawned

\* C16: at most one child process of the operation runs at any time: whenever
\* an execution of the tool starts (the counting dry run, a command in plain,
\* monitored or detached mode, a snapshot listing), every process started
\* before in the operation has exited.
C16_OneProcessAtATime ==
    /\ [](running <= 1)
    /\ [][ToolStarts => running = 0]_vars

C16_Witness ==
    /\ running = 1
    /\ inv.via = "Popen"
    /\ opname = "remove"
    /\ \E j \in 1..Len(log) : log[j].site = "precount" /\ log[j].retcode = 0

C16_WitnessDetached ==
    /\ running = 1
    /\ inv.via = "detached"

(***************************************************************************)
(* The progress monitor.                                                   *)
(***************************************************************************)
MonitorReturned == mon.pc = "done"

\* the child prints lines "Installing <pkg> (v) on root" only and exits with 0,
\* the total is the number of its lines and no call of the monitor raised
ScriptedInstall ==
    /\ Len(proc.script) >= 1
    /\ \A i \in 1..Len(proc.script) :
          get_operation_and_package_from_output_line(proc.script[i]).operation
              = "install"
    /\ proc.returncode = 0
    /\ mon.total_packages_count = Len(proc.script)
    /\ ~mon.raised

EventPackages == {mon.events[i].package : i \in 1..Len(mon.events)}

\* C17: when the monitor returns from a child that printed N "Installing"
\* lines and exited with 0, with total = N, it has counted N items and has
\* emitted an event for the package of the first line and one for the package
\* of the last line, however the child's writes and exit fell between the
\* monitor's reads.
C17_EveryLineProcessed ==
    (MonitorReturned /\ ScriptedInstall)
        => /\ mon.processed_count = Len(proc.script)
           /\ proc.script[1][2] \in EventPackages
           /\ Last(proc.script)[2] \in EventPackages

\* a step of the loop that ends with the decision on the notification
LoopStep == mon.pc = "emit" /\ mon'.pc = "poll"

Emits == LoopStep /\ Len(mon'.events) = Len(mon.events) + 1

PeriodExceeded == clock - mon.last_notify_timestamp > mon.notify_progress_period

FirstOrLast(count) == count \in {1, mon.total_packages_count}

\* the item processed in this step is the first or the last one
JustProcessedFirstOrLast == mon.counted /\ FirstOrLast(mon.processed_count)

\* the count of the last event, 0 when there is none
LastSentCount == IF mon.events = <<>> THEN 0 ELSE Last(mon.events).count

\* the first or the last item has been processed since the last event
FirstOrLastSinceLastEvent ==
    \E count \in (LastSentCount + 1)..mon.processed_count : FirstOrLast(count)

EmissionRecorded ==
    /\ mon'.last_sent_package = mon.current_package
    /\ mon'.last_notify_timestamp = clock
    /\ Last(mon'.events).package = mon.current_package

\* C18 as stated: in each step of the loop an event is emitted if and only if
\* (the period has passed since the last emission or the item processed in
\* this step is the first or the last one) and the current package is not the
\* last-emitted one; an emission records the current package and the time.
C18_EmittedIffPeriodOrJustFirstOrLast ==
    [][LoopStep =>
          /\ Emits <=> /\ PeriodExceeded \/ JustProcessedFirstOrLast
                       /\ mon.current_package # mon.last_sent_package
          /\ Emits => EmissionRecorded]_vars

\* C18: in each step of the loop an event is emitted if and only if (the
\* period has passed since the last emission, or the first or the last item
\* has been processed, in this step or an earlier one, since the last
\* emission) and the current package is not the last-emitted one; an emission
\* records the current package and the time.
C18_EmittedIffPeriodOrFirstOrLastPending ==
    [][LoopStep =>
          /\ Emits <=> /\ PeriodExceeded \/ FirstOrLastSinceLastEvent
                       /\ mon.current_package # mon.last_sent_package
          /\ Emits => EmissionRecorded]_vars

\* two events have been emitted within one period: the second one because
\* of the first or the last item
C18_Witness ==
    /\ Len(mon.events) >= 2
    /\ mon.last_notify_timestamp = mon.notify_progress_period + 1

\* an event has been emitted because the period had passed
C18_WitnessPeriod ==
    /\ Len(mon.events) >= 2
    /\ mon.last_notify_timestamp > mon.notify_progress_period + 2
    /\ Last(mon.events).count \notin {1, mon.total_packages_count}

\* C19: once the child is spawned, an exception raised in the loop ends the
\* loop and leads to the wait for the child; the monitor returns only after
\* the child has exited and has been reaped, and the returned result carries
\* the exit code of the child.
C19_ChildReapedOnReturn ==
    /\ mon.raised => mon.pc \in {"communicate", "done"}
    /\ MonitorReturned => /\ proc.exited
                          /\ proc.reaped
                          /\ mon.ret.retcode = proc.returncode

\* the monitor has returned the exit code 1 of its child after an exception
\* that was raised when some output had been read
C19_Witness ==
    /\ MonitorReturned
    /\ mon.raised
    /\ mon.stdout # <<>>
    /\ proc.reaped
    /\ mon.ret.retcode = 1

\* what the child has written to its standard output
ChildOutput == SubSeq(proc.script, 1, proc.written)

\* C20: the stdout of the returned result is everything the child wrote, in
\* order, no line lost and none twice, wherever the child exited and wherever
\* the loop stopped.
C20_StdoutIsChildOutput ==
    MonitorReturned => mon.ret.stdout = ChildOutput

\* the same for the runs in which no call of the monitor raised
C20_StdoutIsChildOutputWithoutException ==
    (MonitorReturned /\ ~mon.raised) => mon.ret.stdout = ChildOutput

(***************************************************************************)
(* The counting dry run, the snapshot cache, the plan and the change set.  *)
(***************************************************************************)
PreCountEntries == {j \in 1..Len(log) : log[j].site = "precount"}

\* the command of the operation has returned to _execute_install_command or
\* to _execute_remove_command and its result has been looked at
CommandLookedAt ==
    \/ ExecDone
    \/ opname \in {"remove", "purge"} /\ pc \in {"remove_list_new", "done"}
                                      /\ CommandEntries # {}

\* C21: the counting dry run is the command with "--noaction" appended,
\* executed by _call_opkg, and the command executed after it is the command
\* without that flag; when the counting dry run fails, the command is executed
\* once, by _call_opkg and not by the progress monitor, and the errors of the
\* operation are those of that execution alone.
C21_FailedPreCountFallsBackToInvoker ==
    \A j \in PreCountEntries :
        /\ Cardinality(PreCountEntries) = 1
        /\ log[j].via = "_call_opkg"
        /\ Last(log[j].cmd) = "--noaction"
        /\ \A i \in CommandEntries :
              /\ i = j + 1
              /\ Append(log[i].cmd, "--noaction") = log[j].cmd
              /\ log[j].retcode # 0 => log[i].via = "_call_opkg"
              /\ (log[j].retcode # 0 /\ CommandLookedAt) =>
                    (loc.errors = <<>> <=> log[i].retcode = 0)

\* a command has succeeded after its counting dry run had failed
C21_Witness ==
    /\ CommandLookedAt
    /\ \E j \in PreCountEntries : log[j].retcode # 0
    /\ \E i \in CommandEntries : log[i].retcode = 0 /\ log[i].via = "_call_opkg"
    /\ loc.errors = <<>>

\* a command has failed after its counting dry run had failed
C21_WitnessFailure ==
    /\ CommandLookedAt
    /\ \E j \in PreCountEntries : log[j].retcode # 0
    /\ \E i \in CommandEntries : log[i].retcode # 0
    /\ loc.errors # <<>>

\* C22: the monitor never waits for the observer: whenever it is about to
\* decide on a notification its step can be taken, whatever the channel
\* holds, also when the channel is full.
C22_EmissionNeverWaitsForObserver ==
    mon.pc = "emit" => ENABLED MonEmit

\* the monitor has sent an event into a full channel and has gone on to return
C22_Witness ==
    /\ MonitorReturned
    /\ mon.pending = ChannelCapacity
    /\ Len(mon.events) > ChannelCapacity
    /\ Len(mon.stdout) = Len(proc.script)

BetweenOperations == pc \in {"idle", "done"}

\* C23: between operations a populated cache holds the installed packages as
\* they are, after successful, failed and dry-run operations alike; a
\* post-snapshot is never taken from the cache: the cache has been dropped
\* when the listing for it starts.
C23_CacheIsInstalledState ==
    /\ (BetweenOperations /\ context # <<>>) => context[1] = installed
    /\ (inv.active /\ inv.site = "post_snapshot") => context = <<>>

\* an upgrade that took its old snapshot from the cache has changed the
\* installed packages, and the cache holds the new state
C23_Witness ==
    /\ UpgradeDone
    /\ \A j \in 1..Len(log) : log[j].site # "pre_snapshot"
    /\ installed # pre.installed
    /\ context = <<installed>>

(***************************************************************************)
(* C24: bucket lists and commands of an install plan                        *)
(***************************************************************************)
Planned == opname = "install" /\ pc = "planned"

BucketNames == {"to_install", "to_downgrade", "to_reinstall", "to_install_detached"}

\* the package a target string of the plan names
RequestedOf(target) ==
    {kw.pkg_params[i].name : i \in
        {i \in 1..Len(kw.pkg_params) :
            \/ target = kw.pkg_params[i].name
            \/ \E o \in {"=", ">=", "<="} : \E v \in Versions :
                  target = PkgStr(kw.pkg_params[i].name, o, v)}}

BucketsOf(p) ==
    {n \in BucketNames : \E i \in 1..Len(loc.buckets[n]) : p \in RequestedOf(loc.buckets[n][i])}

PlanCommands == loc.cmds \o loc.detached_cmds

CommandsOf(p) ==
    {c \in 1..Len(PlanCommands) :
        \E i \in 1..Len(PlanCommands[c]) : p \in RequestedOf(PlanCommands[c][i])}

NoRepeat(seq) == \A i, j \in 1..Len(seq) : seq[i] = seq[j] => i = j

\* C24: in an install plan each requested package is in exactly one bucket,
\* no package is targeted by more than one command and no command repeats a
\* target string.
C24_OneBucketOneCommandNoRepeat ==
    Planned =>
        /\ \A i \in 1..Len(kw.pkg_params) :
              /\ Cardinality(BucketsOf(kw.pkg_params[i].name)) = 1
              /\ Cardinality(CommandsOf(kw.pkg_params[i].name)) <= 1
        /\ \A c \in 1..Len(PlanCommands) : NoRepeat(PlanCommands[c])

\* C24 for the requests in which no package's version list repeats a condition
C24_HoldsWithoutRepeatedCondition ==
    (Planned /\ \A i \in 1..Len(kw.pkg_params) : NoRepeat(kw.pkg_params[i].conds))
        => C24_OneBucketOneCommandNoRepeat

C24_Witness ==
    /\ Planned
    /\ Len(kw.pkg_params) = 2
    /\ Len(kw.pkg_params[1].conds) = 2
    /\ NoRepeat(kw.pkg_params[1].conds)
    /\ kw.reinstall
    /\ Len(PlanCommands) = 2

(***************************************************************************)
(* C25: the keys of a reported change set                                  *)
(***************************************************************************)
ChangesReported == pc = "done" /\ outcome.has_changes

\* C25: every key of the change set reported by install, remove or upgrade is
\* a package whose old and new versions differ.
C25_ChangedKeysDiffer ==
    ChangesReported =>
        \A k \in DOMAIN outcome.changes :
            /\ k \in Pkgs
            /\ outcome.changes[k].old # outcome.changes[k].new

\* C25 for the operations whose plan holds no reinstall target
C25_ChangedKeysDifferWithoutReinstall ==
    (ChangesReported /\ loc.buckets.to_reinstall = <<>>) => C25_ChangedKeysDiffer

C25_Witness ==
    /\ ChangesReported
    /\ opname = "remove"
    /\ outcome.kind = "raise"
    /\ DOMAIN outcome.changes # {}

(***************************************************************************)
(* C26: the comparison of two snapshots                                    *)
(***************************************************************************)
DiffDone == opname = "compare_dicts" /\ pc = "done"

Disagree(A, B, k) ==
    \/ k \in DOMAIN A /\ k \notin DOMAIN B
    \/ k \notin DOMAIN A /\ k \in DOMAIN B
    \/ k \in DOMAIN A /\ k \in DOMAIN B /\ A[k] # B[k]

\* C26: Diff(A, B) has key k exactly when A and B disagree on k, with old A's
\* version or empty and new B's version or empty; Diff(A, A) is empty.
C26_DiffIsDisagreement ==
    DiffDone =>
        /\ DOMAIN outcome.changes \subseteq Pkgs
        /\ \A k \in Pkgs : k \in DOMAIN outcome.changes <=> Disagree(loc.old, installed, k)
        /\ \A k \in DOMAIN outcome.changes :
              /\ outcome.changes[k].old
                    = (IF k \in DOMAIN loc.old THEN ToString(loc.old[k]) ELSE "")
              /\ outcome.changes[k].new
                    = (IF k \in DOMAIN installed THEN ToString(installed[k]) ELSE "")
        /\ loc.old = installed => DOMAIN outcome.changes = {}

C26_Witness ==
    /\ DiffDone
    /\ \E k \in Pkgs : k \in DOMAIN loc.old /\ k \notin DOMAIN installed
                          /\ k \in DOMAIN outcome.changes
    /\ \E k \in Pkgs : k \in DOMAIN loc.old /\ k \in DOMAIN installed
                          /\ loc.old[k] # installed[k]

(***************************************************************************)
(* C27, C28: hold and unhold                                               *)
(***************************************************************************)
HoldDone == opname \in {"hold", "unhold"} /\ pc = "done"

NewFlag == IF opname = "hold" THEN "hold" ELSE "ok"

\* the queries of hold's loop, one per target of the list
Queries == {j \in 1..Len(log) : log[j].site = "get_state"}

QueriedFlag(j) == get_state_flag(log[j].stdout, "")

QueriedTarget(j) == log[j].cmd[3]

LastQuery(j) == \A i \in Queries : QueriedTarget(i) = QueriedTarget(j) => i <= j

\* the query is followed by _set_state's own query and by the flag-setting
\* command for that target
FlagSet(j) ==
    /\ j + 2 <= Len(log)
    /\ log[j + 1].site = "set_state_get"
    /\ log[j + 2].site = "flag"
    /\ log[j + 2].cmd = <<"opkg", "flag", NewFlag, QueriedTarget(j)>>

NoFlagSet(j) == j = Len(log) \/ log[j + 1].site = "get_state"

FlagEntries(t) == {j \in 1..Len(log) : log[j].site = "flag" /\ log[j].cmd[4] = t}

HoldEntry(j) == outcome.changes.targets[QueriedTarget(j)]

InDesiredState(j) ==
    IF opname = "hold" THEN QueriedFlag(j) = "hold" ELSE QueriedFlag(j) # "hold"

\* C27: in hold and unhold a target already in the desired state gets no
\* flag-setting command, result True and no changes; any other target gets
\* the flag-setting command and the change of the flag is reported; no target
\* gets more than one flag-setting command.
C27_SetUnlessDesiredAtMostOnce ==
    (HoldDone /\ ~hold_testmode(kw)) =>
        /\ \A j \in Queries :
              IF InDesiredState(j)
              THEN /\ NoFlagSet(j)
                   /\ LastQuery(j) => /\ HoldEntry(j).result = "True"
                                      /\ HoldEntry(j).changes = <<>>
              ELSE /\ FlagSet(j)
                   /\ LastQuery(j) =>
                         HoldEntry(j).changes = [old |-> QueriedFlag(j + 1), new |-> NewFlag]
        /\ \A t \in Pkgs : Cardinality(FlagEntries(t)) <= 1

\* C27 as the code has it: a target without flag (not installed, or a failed
\* query) gets no command, result False and no changes; a target in the
\* desired state gets no command, result True and no changes; any other
\* target gets the command and result True with the change, whatever the
\* command's outcome; a target gets a second command only after a failed one.
C27_SetUnlessDesiredOrWithoutFlag ==
    (HoldDone /\ ~hold_testmode(kw)) =>
        /\ \A j \in Queries :
              IF QueriedFlag(j) = ""
              THEN /\ NoFlagSet(j)
                   /\ LastQuery(j) => /\ HoldEntry(j).result = "False"
                                      /\ HoldEntry(j).changes = <<>>
              ELSE IF InDesiredState(j)
              THEN /\ NoFlagSet(j)
                   /\ LastQuery(j) => /\ HoldEntry(j).result = "True"
                                      /\ HoldEntry(j).changes = <<>>
              ELSE /\ FlagSet(j)
                   /\ LastQuery(j) =>
                         /\ HoldEntry(j).result = "True"
                         /\ HoldEntry(j).changes
                               = [old |-> QueriedFlag(j + 1), new |-> NewFlag]
        /\ \A t \in Pkgs : \A i, j \in FlagEntries(t) : i < j => log[i].retcode # 0

\* hold(pkgs=['vim', 'vim']): the first pass sets the flag, the second finds it
C27_Witness ==
    /\ HoldDone
    /\ ~hold_testmode(kw)
    /\ kw.names = <<"vim", "vim">>
    /\ Cardinality(FlagEntries("vim")) = 1
    /\ \A j \in FlagEntries("vim") : log[j].retcode = 0
    /\ Cardinality(Queries) = 2
    /\ outcome.changes.targets["vim"].result = "True"
    /\ outcome.changes.targets["vim"].changes = <<>>

WouldChange(j) == QueriedFlag(j) # "" /\ ~InDesiredState(j)

DryRunComment == IF opname = "hold" THEN "is set to be held" ELSE "is set not to be held"

\* C28: in a dry run of hold or unhold no flag-setting command is issued, the
\* flags are unchanged, every target whose flag would change is reported in
\* its own entry with result None, no changes and the comment of the intended
\* transition, and the result holds entries of targets only.
C28_DryRunReportsPerTarget ==
    (HoldDone /\ hold_testmode(kw)) =>
        /\ \A j \in 1..Len(log) : log[j].site = "get_state"
        /\ held = pre.held
        /\ \A j \in Queries :
              (WouldChange(j) /\ LastQuery(j)) =>
                  /\ HoldEntry(j).result = "None"
                  /\ HoldEntry(j).changes = <<>>
                  /\ HoldEntry(j).comment = DryRunComment
        /\ outcome.changes.extra = {}

\* C28 for hold alone
C28_DryRunHoldReportsPerTarget == opname = "hold" => C28_DryRunReportsPerTarget

C28_WitnessHold ==
    /\ HoldDone
    /\ hold_testmode(kw)
    /\ opname = "hold"
    /\ \E j \in Queries : WouldChange(j) /\ HoldEntry(j).comment = DryRunComment

(***************************************************************************)
(* C29, C30: version_cmp                                                   *)
(***************************************************************************)
CmpDone == opname = "version_cmp" /\ pc = "done"

\* the calls of version_cmp, each starting with "opkg --version"
CmpCalls == {v \in 1..Len(log) : log[v].site = "version"}

CallNumber(v) == Cardinality({u \in CmpCalls : u <= v})

\* the results of the calls that have returned
CmpResults == IF outcome.kind = "return" THEN outcome.changes ELSE loc.ret

\* the probes of the call that starts at v
ProbesOf(v) ==
    {j \in (v + 1)..Len(log) :
        /\ log[j].site = "probe"
        /\ \A i \in (v + 1)..j : log[i].site # "version"}

FirstProbe(v) == IF v + 1 <= Len(log) /\ log[v + 1].site = "which" THEN v + 2 ELSE v + 1

UtilityAvailable(v) ==
    /\ log[v].retcode = 0
    /\ \/ log[v].stdout[1][3] = "0.3.4"
       \/ v + 1 <= Len(log) /\ log[v + 1].site = "which" /\ log[v + 1].retcode = 0

FirstZeroProbeDecides ==
    \A v \in CmpCalls :
        LET n == Cardinality(ProbesOf(v))
            f == FirstProbe(v)
            p == CallNumber(v)
        IN /\ ProbesOf(v) = f..(f + n - 1)
           /\ n <= Len(Probes)
           /\ \A j \in ProbesOf(v) :
                 /\ j - f + 1 <= Len(Probes)
                 /\ log[j].cmd[Len(log[j].cmd) - 1] = Probes[j - f + 1].oper
                 /\ j > f => log[j - 1].retcode # 0
           /\ p <= Len(CmpResults) =>
                 /\ UtilityAvailable(v) <=> n > 0
                 /\ IF n > 0 /\ log[f + n - 1].retcode = 0
                    THEN CmpResults[p] = Verdict(Probes[n].ret)
                    ELSE /\ CmpResults[p] = Indeterminate
                         /\ UtilityAvailable(v) => n = Len(Probes)

\* C29: version_cmp runs the probes '<<', '=', '>>' in that order with the
\* compare utility, the first probe that exits zero gives the verdict and is
\* the last one run; without such a probe, or without utility, the result is
\* None; no error is raised.
C29_FirstZeroProbeDecidesWithoutError ==
    CmpDone => (outcome.kind = "return" /\ FirstZeroProbeDecides)

\* C29 for the calls that return
C29_FirstZeroProbeDecidesOnReturn ==
    (CmpDone /\ outcome.kind = "return") => FirstZeroProbeDecides

C29_Witness ==
    /\ CmpDone
    /\ outcome.kind = "return"
    /\ \E v \in CmpCalls : /\ Cardinality(ProbesOf(v)) = 2
                           /\ CmpResults[CallNumber(v)] = Verdict(0)
    /\ \E v \in CmpCalls : /\ Cardinality(ProbesOf(v)) = Len(Probes)
                           /\ CmpResults[CallNumber(v)] = Indeterminate

\* C30: when version_cmp(a, b) and version_cmp(b, a) are both determinate,
\* one is the negative of the other.
C30_Antisymmetric ==
    (CmpDone /\ outcome.kind = "return" /\ Len(outcome.changes) = 2
        /\ outcome.changes[1].determinate /\ outcome.changes[2].determinate)
    => outcome.changes[1].value = -outcome.changes[2].value

C30_Witness ==
    /\ CmpDone
    /\ outcome.kind = "return"
    /\ Len(outcome.changes) = 2
    /\ outcome.changes[1] = Verdict(-1)
    /\ outcome.changes[2] = Verdict(1)
    /\ ~kw.ignore_epoch
    /\ kw.pkg2.epoch = 1

(***************************************************************************)
(* C31: the classifier of output lines                                     *)
(***************************************************************************)
Classified == opname = "classify" /\ pc = "done"

Matched == loc.ret.operation # None /\ loc.ret.package # None

Keywords == [Installing |-> "install", Upgrading |-> "upgrade", Removing |-> "remove",
             Downgrading |-> "downgrade"]

HasKeyword == loc.cmd # <<>> /\ loc.cmd[1] \in DOMAIN Keywords

Versioned == HasKeyword /\ Len(loc.cmd) >= 3 /\ loc.cmd[3] = "("

\* C31: a line is classified with an operation and a package only if its
\* first token is Installing, Upgrading, Removing or Downgrading, it has at
\* least three tokens and the third begins with '('; the operation is then
\* that of the first token and the package the second token; a line with such
\* a first token and another third token gets no package.
C31_ClassifiedOnlyIfVersionedKeywordLine ==
    Classified =>
        /\ Matched => /\ Versioned
                      /\ loc.ret.operation = Keywords[loc.cmd[1]]
                      /\ loc.ret.package = loc.cmd[2]
        /\ (HasKeyword /\ ~Versioned) => loc.ret.package = None

DownloadOfPackageFile ==
    loc.cmd # <<>> /\ loc.cmd[1] = "Downloading" /\ Last(loc.cmd) = "_all.ipk."

\* C31 with the lines of downloads: a line is classified with an operation
\* and a package exactly when it is a versioned line of one of the four
\* keywords (package: the second token) or a Downloading line that ends with
\* the name of a package file (operation download, package: the part of the
\* file name before the first '_').
C31_ClassifiedIffVersionedKeywordLineOrDownload ==
    Classified =>
        /\ Matched <=> (Versioned \/ DownloadOfPackageFile)
        /\ Versioned => /\ loc.ret.operation = Keywords[loc.cmd[1]]
                        /\ loc.ret.package = loc.cmd[2]
        /\ DownloadOfPackageFile => /\ loc.ret.operation = "download"
                                    /\ loc.ret.package = loc.cmd[3]
        /\ (HasKeyword /\ ~Versioned) => loc.ret.package = None

C31_Witness ==
    /\ Classified
    /\ loc.cmd = <<"Removing", "any", "package", "that", "needs", "it">>
    /\ loc.ret = [operation |-> "remove", package |-> None]

(***************************************************************************)
(* C32: the parser of version constraints                                  *)
(***************************************************************************)
Parsed == opname = "_get_version_info" /\ pc = "done"

ParsedString == loc.cmd[1] \o loc.cmd[2] \o loc.cmd[3]

ClaimedOperators ==
    {<<"<", "<">>, <<">", ">">>, <<"<", "=">>, <<">", "=">>, <<"<", ">">>, <<"!", "=">>,
     <<"<">>, <<">">>, <<"=">>}

IsVersionToken(t) == t # <<>> /\ t[1] \in DigitChars /\ \A i \in 1..Len(t) : t[i] \in VersionChars \cup {":"}

HasNoOperator == \A i \in 1..Len(ParsedString) : ParsedString[i] \notin {"<", ">", "=", "!"}

NoOperatorUnchanged ==
    HasNoOperator => loc.ret = [versionString |-> ParsedString, operatorString |-> <<>>,
                                operatorSpecified |-> FALSE]

\* C32: an operator of the list, then optional white space, then a version
\* token give (the version token, the operator, true); a string without
\* operator gives (the string, '', false).
C32_OperatorThenOptionalSpaceThenVersion ==
    Parsed =>
        /\ (loc.cmd[1] \in ClaimedOperators /\ IsVersionToken(loc.cmd[3]))
              => loc.ret = [versionString |-> loc.cmd[3], operatorString |-> loc.cmd[1],
                            operatorSpecified |-> TRUE]
        /\ NoOperatorUnchanged

\* C32 with at most one white-space character between operator and version
C32_OperatorThenAtMostOneSpaceThenVersion ==
    Parsed =>
        /\ (loc.cmd[1] \in ClaimedOperators /\ IsVersionToken(loc.cmd[3]))
              => IF Len(loc.cmd[2]) <= 1
                 THEN loc.ret = [versionString |-> loc.cmd[3], operatorString |-> loc.cmd[1],
                                 operatorSpecified |-> TRUE]
                 ELSE loc.ret = [versionString |-> ParsedString, operatorString |-> <<>>,
                                 operatorSpecified |-> FALSE]
        /\ NoOperatorUnchanged

C32_Witness ==
    /\ Parsed
    /\ loc.cmd = << <<">", "=">>, <<" ">>, <<"1", ":", "1", "~", "a">> >>
    /\ loc.ret.operatorString = <<">", "=">>
    /\ loc.ret.versionString = <<"1", ":", "1", "~", "a">>

(***************************************************************************)
(* C33: the detached execution of a command                                *)
(***************************************************************************)
\* _execute_install_command with the timeout of its wait for the detached child
NextDetached ==
    \/ NextExec
    \/ DetachedTimeout

SpecDetached == Init /\ [][NextDetached]_vars

DetachedDone ==
    /\ opname = "_execute_install_command"
    /\ pc = "done"
    /\ install_execution_mode(kw.notify, kw.parse_output,
                              kw.should_process_in_detached_mode) = "detached"

\* the entry of the error list, a text of one line
ExitCodeEntry(retcode) ==
    <<"Opkg installation operation failed with: " \o ToString(retcode)>>

\* C33: a detached child that exits nonzero leaves exactly one entry in the
\* error list, which names the exit code; one that exits zero leaves none; a
\* child that does not exit within the timeout leaves no entry, the call
\* fails with the timeout and reports no changes.
C33_DetachedExitOrTimeout ==
    DetachedDone =>
        IF outcome.kind = "raise"
        THEN /\ outcome.exc = "TimeoutExpired"
             /\ loc.errors = <<>>
             /\ ~outcome.has_changes
             /\ log = <<>>
        ELSE /\ Len(log) = 1
             /\ log[1].via = "detached"
             /\ loc.errors = IF log[1].retcode # 0
                             THEN <<ExitCodeEntry(log[1].retcode)>> ELSE <<>>

C33_Witness ==
    /\ DetachedDone
    /\ outcome.kind = "return"
    /\ Len(log) = 1
    /\ log[1].retcode = 255
    /\ Len(loc.errors) = 1

C33_WitnessTimeout ==
    /\ DetachedDone
    /\ outcome.exc = "TimeoutExpired"
    /\ running = 1

(***************************************************************************)
(* C34: purge and remove                                                   *)
(***************************************************************************)
PurgeDone == opname = "purge" /\ pc = "done"

\* the command remove issues for the keyword arguments k and the snapshot old
RemoveCommandOf(k, old) == remove_command(k, remove_targets(k.names, old))

\* C34: purge issues the command that remove issues when it is called with
\* the same arguments (name, pkgs and the options: dry run, removal of
\* dependent packages), and like remove it leaves the installed packages as
\* they are in a dry run.
C34_PurgeIsRemoveOfSameArguments ==
    PurgeDone =>
        /\ \A j \in 1..Len(log) :
              log[j].site = "command" => log[j].cmd = RemoveCommandOf(kw, loc.old)
        /\ is_testmode(kw) => installed = pre.installed

(***************************************************************************)
(* install's plan for repository and file requests, with and without       *)
(* reinstall and only_upgrade                                              *)
(***************************************************************************)
FileRequests ==
    {<<[name |-> "/tmp/vim.ipk", conds |-> <<>>]>>,
     <<[name |-> "/tmp/vim.ipk", conds |-> <<>>],
       [name |-> "/tmp/ni-sysmgmt-salt-minion-support.ipk", conds |-> <<>>]>>}

PolicyCalls ==
    {[NoKw EXCEPT !.pkg_type = t, !.pkg_params = r, !.reinstall = ri,
                  !.only_upgrade = ou, !.install_recommends = ir] :
        t \in {"repository"}, r \in ListedRequests, ri \in BOOLEAN, ou \in BOOLEAN,
        ir \in BOOLEAN}
    \cup
    {[NoKw EXCEPT !.pkg_type = t, !.pkg_params = r, !.reinstall = ri,
                  !.only_upgrade = ou, !.install_recommends = ir] :
        t \in {"file"}, r \in FileRequests, ri \in BOOLEAN, ou \in BOOLEAN,
        ir \in {TRUE}}

InitPolicy ==
    /\ installed \in Snapshots
    /\ held = {}
    /\ context = <<>>
    /\ pc = "idle"
    /\ opname = "install"
    /\ kw \in PolicyCalls
    /\ loc = NoLoc
    /\ inv = NoInvocation
    /\ cmd_ret = NoneResult
    /\ log = <<>>
    /\ outcome = NoOutcome
    /\ pre = [installed |-> installed, held |-> held]
    /\ dry = NoDry
    /\ running = 0
    /\ b = NoBuild
    /\ MonIdle

SpecPolicy == InitPolicy /\ [][PlanInstall]_vars

(***************************************************************************)
(* C35: only_upgrade                                                       *)
(***************************************************************************)
Carries(cmd, flag) == \E i \in 1..Len(cmd) : cmd[i] = flag

\* the commands of the plan that have the target
CommandsWith(target) ==
    {c \in 1..Len(PlanCommands) : Carries(PlanCommands[c], target)}

\* the requests of one exact version below the installed one
LowerRequests ==
    {i \in 1..Len(kw.pkg_params) :
        /\ kw.pkg_type = "repository"
        /\ Len(kw.pkg_params[i].conds) = 1
        /\ kw.pkg_params[i].conds[1].oper = ""
        /\ kw.pkg_params[i].name \in DOMAIN installed
        /\ kw.pkg_params[i].conds[1].ver < installed[kw.pkg_params[i].name]}

\* C35: with only_upgrade set no command of the plan of an install request
\* (repository or file) carries --force-downgrade, and a request of an exact
\* version below the installed one is a target of the install command (of
\* the detached one for an always-detached package), which carries no force
\* option.
C35_OnlyUpgradeNeverForcesDowngrade ==
    (Planned /\ kw.only_upgrade) =>
        /\ \A c \in 1..Len(PlanCommands) : ~Carries(PlanCommands[c], "--force-downgrade")
        /\ loc.buckets.to_downgrade = <<>>
        /\ \A i \in LowerRequests :
              LET p == kw.pkg_params[i].name
                  target == PkgStr(p, "=", kw.pkg_params[i].conds[1].ver)
              IN /\ CommandsWith(target) # {}
                 /\ \A c \in CommandsWith(target) :
                       ~Carries(PlanCommands[c], "--force-reinstall")
                 /\ Carries(IF p \in PACKAGES_TO_INSTALL_DETACHED
                            THEN loc.buckets.to_install_detached
                            ELSE loc.buckets.to_install, target)

C35_Witness ==
    /\ Planned
    /\ kw.only_upgrade
    /\ kw.reinstall
    /\ LowerRequests # {}
    /\ \E i \in LowerRequests : kw.pkg_params[i].name = "vim"

C35_WitnessFile ==
    /\ Planned
    /\ kw.only_upgrade
    /\ kw.pkg_type = "file"
    /\ Len(loc.cmds) = 1

(***************************************************************************)
(* C36: reinstall of repository packages                                   *)
(***************************************************************************)
InBucket(i, n) == kw.pkg_params[i].name \in
    UNION {RequestedOf(loc.buckets[n][j]) : j \in 1..Len(loc.buckets[n])}

\* request i asks for no version, or for one exact version (no operator)
\* that is the installed one
NoneOrInstalledVersion(i) ==
    LET p == kw.pkg_params[i].name
        conds == kw.pkg_params[i].conds
    IN \/ conds = <<>>
       \/ /\ Len(conds) = 1
          /\ conds[1].oper = ""
          /\ p \in DOMAIN installed
          /\ conds[1].ver = installed[p]

\* C36: in the plan of a repository install a requested package is in the
\* reinstall bucket exactly if reinstall is set, the package is installed and
\* the request names no version or the installed version as an exact version;
\* without reinstall no command carries --force-reinstall; a request without
\* a version is never in the downgrade bucket.
C36_ReinstallIffInstalledAtRequestedVersion ==
    (Planned /\ kw.pkg_type = "repository") =>
        /\ \A i \in 1..Len(kw.pkg_params) :
              /\ InBucket(i, "to_reinstall") <=>
                    /\ kw.reinstall
                    /\ kw.pkg_params[i].name \in DOMAIN installed
                    /\ NoneOrInstalledVersion(i)
              /\ kw.pkg_params[i].conds = <<>> => ~InBucket(i, "to_downgrade")
        /\ ~kw.reinstall =>
              \A c \in 1..Len(PlanCommands) : ~Carries(PlanCommands[c], "--force-reinstall")

C36_Witness ==
    /\ Planned
    /\ kw.pkg_type = "repository"
    /\ kw.reinstall
    /\ Len(kw.pkg_params) = 2
    /\ InBucket(1, "to_reinstall")
    /\ kw.pkg_params[1].conds # <<>>
    /\ ~InBucket(2, "to_reinstall")
    /\ kw.pkg_params[2].name \in DOMAIN installed
    /\ \E c \in 1..Len(PlanCommands) : Carries(PlanCommands[c], "--force-reinstall")

(***************************************************************************)
(* C37: the order of install's steps                                       *)
(***************************************************************************)
EntriesAt(site) == {j \in 1..Len(log) : log[j].site = site}

InOrder(site1, site2) ==
    \A i \in EntriesAt(site1) : \A j \in EntriesAt(site2) : i < j

\* the commands that were executed, in the order of their execution
ExecutedCommands ==
    LET entries == SelectSeq(log, LAMBDA e : e.site = "command")
    IN [j \in 1..Len(entries) |-> entries[j].cmd]

\* install has got past refresh_db with a plan that has a command
CommandsDue ==
    /\ InstallDone
    /\ loc.cmds # <<>>
    /\ ~(outcome.kind = "raise" /\ outcome.msg = "refresh_db")

\* C37: install's steps are taken in the order pre-snapshot, index refresh
\* (only if requested and the plan is not empty), the commands of the plan in
\* plan order, post-snapshot, change set and restart check, each at most once;
\* with an empty request or plan install returns an empty change set and has
\* run no refresh, no command and no restart check.
C37_InstallStepsInOrder ==
    InstallDone =>
        /\ \A site \in {"pre_snapshot", "refresh", "post_snapshot"} :
              Cardinality(EntriesAt(site)) <= 1
        /\ InOrder("pre_snapshot", "refresh")
        /\ InOrder("pre_snapshot", "command")
        /\ InOrder("refresh", "command")
        /\ InOrder("command", "post_snapshot")
        /\ InOrder("refresh", "post_snapshot")
        /\ EntriesAt("refresh") # {} =>
              kw.refresh /\ (loc.cmds # <<>> \/ loc.detached_cmds # <<>>)
        /\ CommandsDue => ExecutedCommands = loc.cmds
        /\ outcome.restartcheck # "not run" =>
              /\ EntriesAt("post_snapshot") # {}
              /\ outcome.has_changes
        /\ (outcome.kind = "return" /\ loc.cmds = <<>> /\ loc.detached_cmds = <<>>) =>
              /\ outcome.changes = <<>>
              /\ EntriesAt("refresh") = {}
              /\ EntriesAt("command") = {}
              /\ EntriesAt("post_snapshot") = {}
              /\ outcome.restartcheck = "not run"

(***************************************************************************)
(* The total of _get_total_packages and the count of                       *)
(* _process_with_progress for one output of the tool: the dry run has      *)
(* printed the output and succeeded, and the monitor reads every line of   *)
(* the same output.                                                        *)
(***************************************************************************)
CountLines ==
    ScriptLines \cup
    {<<"Removing", "vim", "(", "1", ")", "from", "root...">>,
     <<"Removing", "any", "package", "that", "needs", "it">>,
     <<"Upgrading", "vim", "from", "1", "to", "2", "on", "root">>,
     <<"Downgrading", "vim", "(", "1", ")", "on", "root">>}

\* the locals of the monitor after it has read the lines one after another
RECURSIVE process_lines(_, _)
process_lines(mo, lines) ==
    IF lines = <<>> THEN mo
    ELSE process_lines(process_output(mo, <<Head(lines)>>), Tail(lines))

InitCount ==
    /\ installed = EmptySnapshot
    /\ held = {}
    /\ context = <<>>
    /\ pc = "idle"
    /\ opname = "_get_total_packages"
    /\ kw = NoKw
    /\ loc = NoLoc
    /\ inv = NoInvocation
    /\ \E output \in SeqsUpTo(CountLines, MaxLines) : cmd_ret = Result(0, output, <<>>)
    /\ log = <<>>
    /\ outcome = NoOutcome
    /\ pre = [installed |-> installed, held |-> held]
    /\ dry = NoDry
    /\ running = 0
    /\ b = NoBuild
    /\ MonIdle

\* total_packages_count = _get_total_packages(cmd)
CountTotal ==
    /\ pc = "idle"
    /\ opname = "_get_total_packages"
    /\ loc' = [loc EXCEPT !.total = get_total_packages(cmd_ret)]
    /\ pc' = "counted"
    /\ UNCHANGED <<installed, held, context, opname, kw, inv, cmd_ret, log, outcome, pre,
                   dry, running, b, proc, mon, clock>>

\* the read loop of _process_with_progress over the lines of the output
CountProcessed ==
    /\ pc = "counted"
    /\ opname = "_get_total_packages"
    /\ mon' = process_lines([NoMon EXCEPT !.total_packages_count = loc.total],
                            cmd_ret.stdout)
    /\ pc' = "done"
    /\ UNCHANGED <<installed, held, context, opname, kw, loc, inv, cmd_ret, log, outcome,
                   pre, dry, running, b, proc, clock>>

SpecCount == InitCount /\ [][CountTotal \/ CountProcessed]_vars

(***************************************************************************)
(* C38: total and processed count                                          *)
(***************************************************************************)
CountDone == opname = "_get_total_packages" /\ pc = "done"

\* C38: for every output of the tool the total the counting dry run derives
\* from it is the number of its lines the progress monitor counts as
\* processed, so that the count is the total once all lines are read.
C38_TotalIsProcessedCount ==
    CountDone => mon.processed_count = loc.total

\* the count never exceeds the total
C38_ProcessedCountAtMostTotal ==
    CountDone => mon.processed_count <= loc.total

C38_WitnessAtMostTotal ==
    /\ CountDone
    /\ loc.total = MaxLines
    /\ mon.processed_count = MaxLines - 1

(***************************************************************************)
(* C39: the stream of progress events                                      *)
(***************************************************************************)
\* _process_with_progress called as _execute_install_command and
\* _execute_remove_command call it: with the total that _get_total_packages
\* has derived from a dry run, here one that printed the child's script
InitStream ==
    /\ installed = EmptySnapshot
    /\ held = {}
    /\ Idle
    /\ b = NoBuild
    /\ \E script \in SeqsUpTo(ScriptLines, MaxLines) :
          /\ proc = [NoProc EXCEPT !.script = script]
          /\ \E period \in Periods :
                mon = [NoMon EXCEPT
                          !.pc = "start",
                          !.total_packages_count =
                              get_total_packages(Result(0, script, <<>>)),
                          !.notify_progress_period = period]
    /\ clock = mon.notify_progress_period + 1

SpecStream == InitStream /\ [][NextMonitor]_vars

\* the lines read so far that have an operation and a package
ClassifiedLines ==
    {i \in 1..Len(mon.stdout) :
        LET parsed == get_operation_and_package_from_output_line(mon.stdout[i])
        IN parsed.operation # None /\ parsed.package # None}

CountedLines ==
    {i \in ClassifiedLines :
        get_operation_from_output_line(mon.stdout[i], TRUE) \in Counted}

\* C39: every event carries the operation and the package of a line read
\* before it, two consecutive events carry different packages, the count of
\* the events never decreases, the count is the number of install, upgrade,
\* remove and downgrade lines read (a download line changes the package, not
\* the count) and every event carries the total the monitor was given.
C39_EventStream ==
    /\ \A k \in 1..Len(mon.events) :
          /\ \E i \in ClassifiedLines :
                get_operation_and_package_from_output_line(mon.stdout[i]) =
                    [operation |-> mon.events[k].operation,
                     package |-> mon.events[k].package]
          /\ mon.events[k].total_count = mon.total_packages_count
          /\ mon.events[k].count <= mon.processed_count
    /\ \A k \in 1..(Len(mon.events) - 1) :
          /\ mon.events[k].package # mon.events[k + 1].package
          /\ mon.events[k].count <= mon.events[k + 1].count
    /\ mon.processed_count = Cardinality(CountedLines)

C39_Witness ==
    /\ Len(mon.events) = 3
    /\ mon.events[1].operation = "download"
    /\ mon.events[1].count = 0
    /\ mon.events[2].count = 1
    /\ mon.events[3].count = 2
    /\ mon.events[1].package = mon.events[3].package

(***************************************************************************)
(* C40: restarts of services and the reboot-required mark                  *)
(***************************************************************************)
\* errors as it is when _get_restartcheck_result is called
ErrorsBeforeRestartCheck ==
    IF opname = "upgrade" THEN UpgradeError(loc.result) ELSE loc.errors

AfterSuccessfulUpgrade ==
    /\ opname = "upgrade"
    /\ outcome.msg = "Problem encountered after successfully upgrading package(s). Cannot provide changes list."

\* C40: in install, remove and upgrade services are restarted and the reboot
\* is marked only after the restart check and only if the operation's error
\* list is empty then, so an operation that fails restarts nothing.
C40_RestartOnlyOnSuccess ==
    (OperationDone /\ outcome.restarted) =>
        /\ outcome.restartcheck = "restart"
        /\ ErrorsBeforeRestartCheck = <<>>
        /\ outcome.kind = "return"

\* C40, corrected: services are restarted and the reboot is marked only after
\* the restart check and only if the error list, to which a comment of the
\* restart check is added, is empty; an operation that fails with an entry in
\* that list restarts nothing, and the one failure that comes after the
\* restarts is upgrade's, when its command has succeeded and the listing of
\* the new snapshot has failed.
C40_RestartOnlyWithoutErrors ==
    OperationDone =>
        /\ outcome.restarted =>
              /\ outcome.restartcheck = "restart"
              /\ ErrorsBeforeRestartCheck = <<>>
              /\ outcome.kind = "raise" => AfterSuccessfulUpgrade
        /\ outcome.restartcheck = "comment" =>
              /\ outcome.kind = "raise"
              /\ ~outcome.restarted
              /\ Len(outcome.errors) > Len(ErrorsBeforeRestartCheck)
              /\ outcome.errors[Len(ErrorsBeforeRestartCheck) + 1] =
                    <<"restartcheck comment">>
        /\ (outcome.restartcheck # "not run" /\ ErrorsBeforeRestartCheck # <<>>) =>
              /\ outcome.kind = "raise"
              /\ ~outcome.restarted

C40_Witness ==
    /\ OperationDone
    /\ outcome.restarted
    /\ outcome.kind = "raise"
    /\ AfterSuccessfulUpgrade

C40_WitnessRemove ==
    /\ OperationDone
    /\ opname = "remove"
    /\ outcome.restartcheck = "restart"
    /\ ErrorsBeforeRestartCheck # <<>>
    /\ ~outcome.restarted

====
